---------------------------- MODULE Spec2Model ----------------------------
(***************************************************************************)
(* Model of the influencer curation pipeline (src/pipeline):               *)
(*   processors.py  FISCalculator, InfluencerClassifier                    *)
(*   vectorizer.py  BrandVectorizer, InfluencerVectorizer, cosine          *)
(*   matcher.py     InfluencerMatcher.match and its scoring / selection    *)
(*                                                                         *)
(* Number representation.  The source computes in binary floating point.   *)
(* The model uses exact integer fixed point:                               *)
(*   sub-scores of the FIS            whole points     (90.0  -> 90)       *)
(*   FIS final score                  1/10000 point    (88.1125 -> 881125) *)
(*   returned fis_score               1/10 point       (88.1  -> 881)      *)
(*   scores in [0,1] of the matcher   1/10000          (0.85  -> 8500)     *)
(*   image-analysis scores            1/1000           (0.8   -> 800)      *)
(*   vector components                1/1000           (0.9   -> 900)      *)
(* round(x, n) of the source is modelled by RoundDiv, which rounds to the  *)
(* nearest unit; on an exact tie the float result depends on the binary    *)
(* representation error, so the direction of a tie is a parameter that     *)
(* the actions choose nondeterministically.                                *)
(*                                                                         *)
(* Text representation.  A text (bio, caption, vibe, campaign text) is a   *)
(* sequence of words; keywords of the source are romanised (TLA+ strings   *)
(* are ASCII).  "kw in text" of the source is Has(text, kw): some word of  *)
(* the text contains kw as a substring (Parts).                            *)
(***************************************************************************)
EXTENDS Integers, Sequences, FiniteSets, TLC

VARIABLES
    rec,          \* the creator record handed to a stand-alone scorer
    fis,          \* result of FISCalculator.calculate(rec), or NoResult
    cls,          \* result of InfluencerClassifier.classify(rec), or NoResult
    influencers,  \* routes._influencers: the loaded creator list
    call,         \* arguments of the last InfluencerMatcher.match call, or NoResult
    result        \* value returned by that call, or NoResult

vars == <<rec, fis, cls, influencers, call, result>>

NoResult == [none |-> TRUE]

(***************************************************************************)
(* Bounds of the model                                                     *)
(***************************************************************************)
MaxPosts == 2        \* longest recent_posts list handed to the stand-alone scorers
MaxCreators == 6     \* longest creator list handed to match
MaxTopK == 5         \* largest top_k handed to match

(***************************************************************************)
(* Generic helpers                                                         *)
(***************************************************************************)
Min(a, b) == IF a <= b THEN a ELSE b
Max(a, b) == IF a >= b THEN a ELSE b

\* body(v) where v is the value of e, computed once: a local assignment v = e
Bind(e, body(_)) == CHOOSE out \in {body(v) : v \in {e}} : TRUE

RECURSIVE SumSeq(_)
SumSeq(s) == IF s = <<>> THEN 0 ELSE Head(s) + SumSeq(Tail(s))

\* [f(s[i]) : i] for the i with p, in order (list comprehension with filter)
RECURSIVE SelectIdx(_, _)
SelectIdx(s, keep) ==
    IF s = <<>> THEN <<>>
    ELSE IF keep[1] THEN <<Head(s)>> \o SelectIdx(Tail(s), Tail(keep))
         ELSE SelectIdx(Tail(s), Tail(keep))

\* round(x / unit) to the nearest integer, x >= 0; an exact tie goes up iff tieUp
RoundDiv(x, unit, tieUp) ==
    LET q == x \div unit
        r == x % unit
    IN  IF 2 * r > unit THEN q + 1
        ELSE IF 2 * r < unit THEN q
        ELSE IF tieUp THEN q + 1 ELSE q

(***************************************************************************)
(* Words.  Hangul words of the source are romanised syllable by syllable;  *)
(* Latin-script words keep their spelling.  Parts(word) is the set of      *)
(* keywords of the source that occur in the word as substrings, Lower the  *)
(* effect of str.lower(), ShortWords the words of at most two characters.  *)
(***************************************************************************)
LatinWords == {"GRWM", "MZ", "OOTD", "SCENE", "SHINE", "VIP", "Y2K", "YOUR",
    "daily", "expert", "grwm", "hair", "mz", "ootd", "professional", "scene",
    "shine", "trendy", "vip", "y2k", "your"}

\* '\uac00' <= c <= '\ud7a3' for some character c of the word
HasHangul(word) == word \notin LatinWords

\* any(... for c in text)
TextHasHangul(text) == \E i \in 1..Len(text) : HasHangul(text[i])

\* word.lower()
Lower(word) ==
    IF word = "GRWM" THEN "grwm"
    ELSE IF word = "MZ" THEN "mz"
    ELSE IF word = "OOTD" THEN "ootd"
    ELSE IF word = "SCENE" THEN "scene"
    ELSE IF word = "SHINE" THEN "shine"
    ELSE IF word = "VIP" THEN "vip"
    ELSE IF word = "Y2K" THEN "y2k"
    ELSE IF word = "YOUR" THEN "your"
    ELSE IF word = "Z-sedae" THEN "z-sedae"
    ELSE word

\* the words that contain other keywords, with the keywords each contains
CompoundParts ==
    ("15-nyeoncha" :> {"15-nyeoncha", "nyeoncha"}) @@
    ("gwahakjeok" :> {"gwahakjeok", "gwahak"}) @@
    ("deomatolroji" :> {"deomatolroji", "deoma"}) @@
    ("deilriruk" :> {"deilriruk", "deilri", "ruk"}) @@
    ("dupigwahak" :> {"dupigwahak", "gwahak", "dupi"}) @@
    ("dupikeeo" :> {"dupikeeo", "dupi", "keeo"}) @@
    ("raipeuseutail" :> {"raipeuseutail", "seutail"}) @@
    ("mingamseong" :> {"mingamseong", "gamseong"}) @@
    ("salrongjeonyong" :> {"salrongjeonyong", "salrong"}) @@
    ("salrongjeonyongyeomsaekyak" :> {"salrongjeonyongyeomsaekyak", "salrong", "salrongjeonyong", "yeomsaek", "yeomsaekyak"}) @@
    ("salrongkeeo" :> {"salrongkeeo", "salrong", "keeo"}) @@
    ("selpeuyeomsaek" :> {"selpeuyeomsaek", "selpeu", "yeomsaek"}) @@
    ("sonsangmokeeo" :> {"sonsangmokeeo", "sonsangmo", "keeo"}) @@
    ("seukinkeeo" :> {"seukinkeeo", "keeo"}) @@
    ("seutailriseuteu" :> {"seutailriseuteu", "seutail"}) @@
    ("seutailring" :> {"seutailring", "seutail"}) @@
    ("yeomsaekyak" :> {"yeomsaekyak", "yeomsaek"}) @@
    ("jayangyunmosyampu" :> {"jayangyunmosyampu", "syampu", "jayang"}) @@
    ("jayeonhyang" :> {"jayeonhyang", "jayeon", "hyang"}) @@
    ("jeonmunga" :> {"jeonmunga", "jeonmun"}) @@
    ("jeonmunjeokin" :> {"jeonmunjeokin", "jeonmun"}) @@
    ("cheongdamdong" :> {"cheongdamdong", "cheongdam"}) @@
    ("keolreo" :> {"keolreo", "keol"}) @@
    ("keolreoriseuteu" :> {"keolreoriseuteu", "keol", "keolreo"}) @@
    ("keolreopul" :> {"keolreopul", "keol", "keolreo"}) @@
    ("talmosyampu" :> {"talmosyampu", "syampu", "talmo"}) @@
    ("talmokeeo" :> {"talmokeeo", "keeo", "talmo"}) @@
    ("teurendeuseteo" :> {"teurendeuseteo", "teurendeu"}) @@
    ("teurendihan" :> {"teurendihan", "teurendi"}) @@
    ("peomje" :> {"peomje", "peom"}) @@
    ("peuropesyeoneol" :> {"peuropesyeoneol", "peuro"}) @@
    ("pibugwahak" :> {"pibugwahak", "gwahak", "pibugwa"}) @@
    ("hyanggi" :> {"hyanggi", "hyang"}) @@
    ("heeodijaineo" :> {"heeodijaineo", "dijaineo", "heeo"}) @@
    ("heeosalrong" :> {"heeosalrong", "salrong", "heeo"}) @@
    ("heeosyap" :> {"heeosyap", "heeo"}) @@
    ("heeoseupeurei" :> {"heeoseupeurei", "seupeurei", "heeo"}) @@
    ("heeoatiseuteu" :> {"heeoatiseuteu", "heeo"}) @@
    ("heeoesenseu" :> {"heeoesenseu", "esenseu", "heeo"}) @@
    ("heeooil" :> {"heeooil", "oil", "heeo"}) @@
    ("heeokeolreo" :> {"heeokeolreo", "keol", "keolreo", "heeo"}) @@
    ("heeokeeo" :> {"heeokeeo", "keeo", "heeo"}) @@
    ("homkeeo" :> {"homkeeo", "keeo"})

Parts(word) == IF word \in DOMAIN CompoundParts THEN CompoundParts[word] ELSE {word}

ShortWords == {"MZ", "mz", "gamseong", "gaeseong", "geomjeung",
    "gyeongryeok", "gogeup", "gonggan", "gwajeong", "gwahak", "gwangchae",
    "gyoyuk", "geunbon", "kkultem", "kkultip", "nyeoncha", "daedam", "deoma",
    "dupi", "reseun", "rutin", "ruk", "ribyu", "rinseu", "myeonheo",
    "myeongpum", "mogeun", "mobal", "mudeu", "museu", "baksa", "bokgu",
    "bonjil", "bolryum", "beulru", "bigeon", "bibeop", "ppuri", "salrong",
    "saengyak", "syampu", "seongbun", "sereom", "sejeong", "selpeu",
    "sunhan", "sup_", "sisul", "sinroe", "yeongu", "yeomsaek", "yeongyang",
    "yeyak", "oil", "wakseu", "udi", "wonjang", "wihan", "yurae", "yusan",
    "yungi", "insam", "ilsang", "imsang", "jayang", "jayeon", "jeoryeom",
    "jeonmun", "jeontong", "jeolmeun", "jel", "josaek", "jinsaeng",
    "cheongdam", "cheonga", "chucheon", "keol", "keolreo", "keeo", "talmo",
    "pap", "paesyeon", "peopyum", "peom", "peomje", "pyeonan", "pyohyeon",
    "peuro", "piji", "pingkeu", "hanbang", "hanyak", "hyang", "hyanggi",
    "heeo", "hyeopchan", "hwaryeo", "hyogwa", "hyoneung", "hyusik", "heukun",
    "hilring", "hip"}

\* kw in text
Has(text, kw) == \E i \in 1..Len(text) : kw \in Parts(text[i])

\* text.count(kw)
Count(text, kw) == Cardinality({i \in 1..Len(text) : kw \in Parts(text[i])})

\* text.lower()
LowerText(text) == [i \in 1..Len(text) |-> Lower(text[i])]

\* sum(1 for kw in keywords if kw in text), keywords a set
CountIn(keywords, text) == Cardinality({kw \in keywords : Has(text, kw)})

\* sum(1 for kw in keywords if kw.lower() in text), keywords a sequence
CountSeqLowerIn(keywords, text) ==
    Cardinality({i \in 1..Len(keywords) : Has(text, Lower(keywords[i]))})

\* any(kw in text for kw in keywords)
AnyIn(keywords, text) == \E kw \in keywords : Has(text, kw)

(***************************************************************************)
(* Keyword tables of the source                                            *)
(***************************************************************************)
EXPERT_KEYWORDS == {"miyongsa", "wonjang", "salrong", "sisul", "yeyak",
    "peom", "yeomsaekyak", "resipi", "keolreoriseuteu", "heeoatiseuteu",
    "direkteo", "jeonmunga", "jagyeokjeung", "gyoyuk", "keulrinik",
    "dupikeeo", "balreajyu", "tekeunik", "josaek", "miyongsil"}

TRENDSETTER_KEYWORDS == {"seutailring", "deilriruk", "OOTD", "chucheon",
    "kkultip", "selpeu", "homkeeo", "teurendeu", "paesyeon", "ilsang",
    "keurieiteo", "inpeulrueonseo", "hyeopchan", "ribyu", "gaseongbi",
    "kkultem", "soljikhugi", "rutin", "yutyubeu"}

\* EXPERT_WEIGHTS.get(kw, 1.0), in units of 1/2
EXPERT_WEIGHTS(kw) ==
    IF kw = "wonjang" THEN 6
    ELSE IF kw = "miyongsa" THEN 5
    ELSE IF kw = "salrong" THEN 4
    ELSE IF kw = "sisul" THEN 4
    ELSE IF kw = "direkteo" THEN 5
    ELSE 2

\* TRENDSETTER_WEIGHTS.get(kw, 1.0), in units of 1/2
TRENDSETTER_WEIGHTS(kw) ==
    IF kw = "keurieiteo" THEN 5
    ELSE IF kw = "inpeulrueonseo" THEN 5
    ELSE IF kw = "teurendeuseteo" THEN 6
    ELSE IF kw = "hyeopchan" THEN 4
    ELSE 2

\* ---- vectorizer.py ----
BrandLuxuryKeywords == {"peurimieom", "reoksyeori", "gogeup", "myeongpum",
    "VIP", "haiendeu"}

\* product type -> professional index (1/1000), in dictionary order
PRODUCT_PROFESSIONAL_INDEX == <<<<"yeomsaekyak", 900>>, <<"sanhwaje", 950>>,
    <<"talsaekje", 900>>, <<"peomje", 950>>, <<"keulrinik", 900>>,
    <<"dupikeeo", 800>>, <<"sonsangmokeeo", 700>>, <<"salrongjeonyong",
    1000>>, <<"syampu", 300>>, <<"rinseu", 250>>, <<"keondisyeoneo", 250>>,
    <<"teuriteumeonteu", 400>>, <<"heeoesenseu", 400>>, <<"heeooil", 350>>,
    <<"heeoseupeurei", 300>>, <<"wakseu", 350>>, <<"godegi", 400>>,
    <<"deuraigi", 350>>, <<"selpeuyeomsaek", 450>>, <<"talmosyampu", 550>>>>

BrandTrendyKeywords == {"teurendi", "hip", "MZ", "jeolmeun", "Y2K",
    "seuteuris"}

BrandNaturalKeywords == {"jayeon", "naechureol", "sunhan", "chinhwangyeong",
    "bigeon"}

BrandColorfulKeywords == {"hwaryeo", "keolreopul", "bibideu", "pap"}

get_style_scores(style) ==
    IF style = "Luxury" THEN [luxury |-> 900, colorful |-> 200, natural |-> 100, trendy |-> 300]
    ELSE IF style = "Natural" THEN [luxury |-> 300, colorful |-> 100, natural |-> 900, trendy |-> 200]
    ELSE IF style = "Trendy" THEN [luxury |-> 300, colorful |-> 500, natural |-> 200, trendy |-> 900]
    ELSE IF style = "Classic" THEN [luxury |-> 600, colorful |-> 100, natural |-> 300, trendy |-> 100]
    ELSE IF style = "Minimal" THEN [luxury |-> 500, colorful |-> 100, natural |-> 400, trendy |-> 400]
    ELSE IF style = "Colorful" THEN [luxury |-> 200, colorful |-> 900, natural |-> 100, trendy |-> 700]
    ELSE [luxury |-> 300, colorful |-> 300, natural |-> 300, trendy |-> 300]

InfLuxuryKeywords == {"peurimieom", "reoksyeori", "gogeup", "VIP",
    "cheongdam", "apgujeong"}

InfMassKeywords == {"gaseongbi", "jeoryeom", "daiso", "olribeuyeong"}

InfColorfulKeywords == {"hwaryeo", "keolreopul", "bibideu", "pingkeu",
    "beulru"}

InfNaturalKeywords == {"jayeon", "naechureol", "bigeon", "yuginong",
    "chinhwangyeong"}

InfModernKeywords == {"teurendeu", "teurendi", "MZ", "hip", "Y2K"}

\* ---- matcher.py ----
ExpertiseExpertKeywords == {"wonjang", "direkteo", "miyongsa",
    "keolreoriseuteu", "jagyeokjeung", "jeonmun", "nyeoncha", "gyeongryeok"}

ExpertiseEduKeywords == {"reseun", "gyoyuk", "sisul", "gwajeong", "tekeunik",
    "nohau", "bibeop"}

CertificationWords == {"jagyeokjeung", "raisenseu", "myeonheo"}

FitDirectorWords == {"wonjang", "direkteo"}

FitSalonWords == {"sisul", "salrong"}

FitResearchWords == {"jeonmun", "baksa", "yeongu"}

FitLifestyleKeywords == {"deilri", "ilsang", "rutin", "kkultip", "chucheon",
    "ribyu"}

\* product key -> bio keywords, in dictionary order
product_keywords == <<<<"yeomsaek", {"yeomsaek", "keolreo",
    "keolreoriseuteu", "heeokeolreo", "beulrichi"}>>, <<"peom", {"peom",
    "weibeu", "keol", "bolryum", "seutailring"}>>, <<"syampu", {"keeo",
    "syampu", "sejeong", "keulrenjing", "mobal"}>>, <<"dupi", {"dupi",
    "talmo", "seukaelpeu", "mogeun", "dupikeeo"}>>, <<"teuriteumeonteu",
    {"teuriteumeonteu", "sonsangmo", "keeo", "yeongyang", "bokgu"}>>,
    <<"salrong", {"salrong", "wonjang", "miyongsil", "heeosyap",
    "heeodijaineo"}>>, <<"esenseu", {"esenseu", "sereom", "oil", "yungi",
    "gwangchae"}>>, <<"seutailring", {"seutailring", "wakseu", "seupeurei",
    "museu", "jel"}>>>>

\* style_match_map[brand_style]; {} when brand_style is not a key
style_match_map(brand_style) ==
    IF brand_style = "Luxury" THEN {"luxury", "minimal", "elegant", "premium"}
    ELSE IF brand_style = "Natural" THEN {"natural", "organic", "clean", "minimal"}
    ELSE IF brand_style = "Trendy" THEN {"trendy", "modern", "hip", "edgy"}
    ELSE IF brand_style = "Colorful" THEN {"colorful", "vibrant", "pop", "bold"}
    ELSE IF brand_style = "Classic" THEN {"classic", "elegant", "traditional"}
    ELSE IF brand_style = "Minimal" THEN {"minimal", "clean", "simple"}
    ELSE {}

StyleMatchKeys == {"Luxury", "Natural", "Trendy", "Colorful", "Classic", "Minimal"}

UniqueExpertKeywords == {"wonjang", "direkteo", "nyeoncha", "jeonmun",
    "jagyeokjeung", "miyongsa", "keolreoriseuteu"}

ProfessionalBioKeywords == {"sisul", "reseun", "gyoyuk", "keulraeseu",
    "semina"}

ExpertOrientedBioKeywords == {"seongbun", "hyogwa", "hyoneung", "gwahak",
    "yeongu"}

ConsumerBioKeywords == {"deilri", "ilsang", "GRWM", "rutin", "kkultip",
    "chucheon"}

ExpertVibeWords == {"jeonmun", "professional", "expert"}

TrendVibeWords == {"teurendi", "trendy", "gamseong", "seutail"}

\* brand_keywords.get(brand_name, [])
get_brand_specific_keywords(brand_name) ==
    IF brand_name = "ryeo"
    THEN <<"hanbang", "insam", "hanyak", "saengyak", "jeontong", "dongyanguihak",
         "jayang", "cheonga", "heukun", "mogeun", "ppuri", "geunbon", "asia",
         "yusan", "jinsaeng", "yeongyang">>
    ELSE IF brand_name = "mijyangsen"
    THEN <<"teurendeu", "MZ", "Z-sedae", "hip", "seutail", "paesyeon", "gaeseong",
         "pyohyeon", "daedam", "selpeu", "GRWM", "ruk", "helrobeobeul",
         "keolreo", "yeomsaek", "seutailring">>
    ELSE IF brand_name = "raboeichi"
    THEN <<"pibugwa", "deoma", "deomatolroji", "pibugwahak", "imsang", "gwahakjeok",
         "pibujangbyeok", "seukinkeeo", "mingamseong", "seongbun", "piji",
         "seukaelpeu">>
    ELSE IF brand_name = "ayunchae"
    THEN <<"dijaineo", "bonjil", "salrongkeeo", "teikeuhom", "homkeeo", "peuro",
         "peuropesyeoneol", "miyongsa", "wonjang", "sisul", "keulrinik">>
    ELSE IF brand_name = "amoseu_peuropesyeoneol"
    THEN <<"tekeunik", "nohau", "sinroe", "geomjeung", "keorikyulreom", "geurinti",
         "salrong", "peuro", "jeonmunga", "seutailriseuteu", "dijaineo">>
    ELSE IF brand_name = "rongteikeu"
    THEN <<"hyanggi", "peopyum", "hyang", "udi", "sup_", "jayeonhyang", "dipyujeo",
         "gamseong", "mudeu", "hilring", "raipeuseutail", "gonggan",
         "pyeonan", "hyusik">>
    ELSE <<>>

\* competitor_brands.get(brand_name, [])
competitor_brands(brand_name) ==
    IF brand_name = "ryeo" THEN <<"raboeichi">>
    ELSE IF brand_name = "raboeichi" THEN <<"ryeo">>
    ELSE IF brand_name = "mijyangsen" THEN <<"rongteikeu">>
    ELSE IF brand_name = "rongteikeu" THEN <<"mijyangsen">>
    ELSE IF brand_name = "ayunchae" THEN <<"amoseu_peuropesyeoneol">>
    ELSE IF brand_name = "amoseu_peuropesyeoneol" THEN <<"ayunchae">>
    ELSE <<>>

(***************************************************************************)
(* Texts used by the creator pool and the brand contexts                   *)
(***************************************************************************)
Bio_salon_director == <<"cheongdamdong", "heeosalrong", "wonjang",
    "15-nyeoncha", "miyongsa">>
Bio_style_creator == <<"teurendihan", "heeo", "seutailring", "keurieiteo">>
Bio_colorist == <<"yeomsaekyak", "resipi", "gyoyuk", "jeonmunga", "ilsang",
    "kkultip">>
Bio_daily_reviewer == <<"deilri", "rutin", "chucheon", "ribyu", "GRWM">>
Bio_salon_owner == <<"salrong", "wonjang">>
Bio_sponsored == <<"inpeulrueonseo", "hyeopchan", "gaseongbi">>
Bio_latin == <<"daily", "hair">>
Bio_mixed == <<"salrong", "chucheon", "ribyu">>
Bio_scalp_researcher == <<"dupikeeo", "seongbun", "yeongu", "jeonmunga",
    "jagyeokjeung">>
Cap_treatment == <<"oneului", "sisul", "yeyak">>
Cap_ootd == <<"deilriruk", "OOTD", "hyeopchan">>
Cap_herbal == <<"hanbang", "syampu", "jayeon", "seongbun">>
Cap_trend == <<"teurendeu", "keolreo", "yeomsaek", "selpeu">>
Vibe_professional == <<"jeonmunjeokin", "salrong">>
Vibe_trendy == <<"teurendi", "gamseong">>
Slogan_ryeo == <<"hanbang", "peurimieom", "heeokeeo">>
Slogan_mise == <<"SHINE", "YOUR", "SCENE">>
Campaign_mz == <<"MZ", "sedaereul", "wihan", "teurendi", "keolreopul",
    "yeomsaek">>
Campaign_natural == <<"jayeon", "yurae", "seongbun", "dupi", "jeonmunga",
    "chucheon">>
Focus_scalp == <<"dupigwahak", "talmokeeo", "yeongu">>
Values_ryeo == <<"jeontong", "hanbang", "jayeon">>
Values_mise == <<"teurendeu", "seutail", "gaeseong">>
Values_ayunchae == <<"salrongkeeo", "bonjil", "peurimieom">>
Tags_pro == <<"salrong", "jeonmunga">>
Tags_trendy == <<"teurendi", "MZ">>
PT_shampoo == "syampu"
PT_dye == "yeomsaekyak"
PT_scalp == "dupikeeo"
PT_hairloss == "talmosyampu"
PL_jayang == "jayangyunmosyampu"
PL_pro_dye == "salrongjeonyongyeomsaekyak"
PL_hello_bubble == "helrobeobeul"
PL_unknown == "eopsneunrain"

(***************************************************************************)
(* Creator records.  Field names are the dictionary keys of the source.    *)
(*   username                  handle, unique within a creator list        *)
(*   followers                 follower count                              *)
(*   bio                       text                                        *)
(*   recent_posts              sequence of [views, likes, comments,        *)
(*                             caption]                                    *)
(*   audience_countries        function country code -> share in percent;  *)
(*                             the empty function when absent              *)
(*   avg_upload_interval_days  in 1/10 day; 0 when absent                  *)
(*   image_analysis            [present, dominant_style,                   *)
(*                             professionalism_score, trend_relevance_score*)
(*                             (1/1000), vibe, aesthetic_tags];            *)
(*                             present = FALSE when absent or empty        *)
(***************************************************************************)
NoAudience == [c \in {} |-> 0]

NoImage == [present |-> FALSE, dominant_style |-> "", professionalism_score |-> 500,
            trend_relevance_score |-> 500, vibe |-> <<>>, aesthetic_tags |-> <<>>]

(***************************************************************************)
(* FISCalculator (processors.py)                                           *)
(***************************************************************************)
w_view == 25
w_comment == 20
w_engagement == 25
w_activity == 15
w_geo == 15

RECURSIVE GCD(_, _)
GCD(a, b) == IF b = 0 THEN a ELSE GCD(b, a % b)

LCM(a, b) == (a \div GCD(a, b)) * b

RECURSIVE LCMSeq(_)
LCMSeq(s) == IF s = <<>> THEN 1 ELSE LCM(Head(s), LCMSeq(Tail(s)))

\* views = [p.get('views', 0) for p in posts if p.get('views', 0) > 0]
PositiveViews(posts) ==
    SelectIdx([i \in 1..Len(posts) |-> posts[i].views],
              [i \in 1..Len(posts) |-> posts[i].views > 0])

\* cv < num/den, where cv = sqrt(variance)/mean, variance = sum((v-mean)^2)/n.
\* cv^2 = (n*sum(v^2) - (sum v)^2) / (sum v)^2, so the test is
\* D * den^2 < num^2 * S^2, written with a division to stay inside 32 bits.
CvBelow(D, S, num, den) == D <= ((num * num * S * S) - 1) \div (den * den)

view_variability(posts) ==
    LET views == PositiveViews(posts)
        n == Len(views)
        S == SumSeq(views)
        Q == SumSeq([i \in 1..n |-> views[i] * views[i]])
        D == n * Q - S * S
    IN  IF n < 2 THEN 50
        ELSE IF S = 0 THEN 0
        ELSE IF CvBelow(D, S, 3, 100) THEN 30
        ELSE IF CvBelow(D, S, 1, 20) THEN 55
        ELSE IF CvBelow(D, S, 2, 25) THEN 75
        ELSE IF CvBelow(D, S, 1, 2) THEN 95
        ELSE 80

\* The mean of the per-post ratios field/views over the posts with views > 0,
\* as the exact fraction num / den (den = n * lcm of the views).
RatioMean(posts, field) ==
    LET keep == [i \in 1..Len(posts) |-> posts[i].views > 0]
        ps == SelectIdx(posts, keep)
        n == Len(ps)
        L == LCMSeq([i \in 1..n |-> ps[i].views])
    IN  [n |-> n,
         num |-> SumSeq([i \in 1..n |-> ps[i][field] * (L \div ps[i].views)]),
         den |-> n * L]

\* comparisons of a fraction r = num/den (den > 0) with the decimal a/b
FracGE(r, a, b) == r.num * b >= a * r.den
FracLE(r, a, b) == r.num * b <= a * r.den
FracLT(r, a, b) == r.num * b < a * r.den
FracGT(r, a, b) == r.num * b > a * r.den

engagement_asymmetry(posts) ==
    LET avg == RatioMean(posts, "likes")
    IN  IF avg.n = 0 THEN 50
        ELSE IF FracGE(avg, 2, 100) /\ FracLE(avg, 15, 100) THEN 90
        ELSE IF (FracGE(avg, 1, 100) /\ FracLT(avg, 2, 100))
                \/ (FracGT(avg, 15, 100) /\ FracLE(avg, 25, 100)) THEN 70
        ELSE IF FracLT(avg, 1, 100) THEN 30
        ELSE 40

comment_entropy(posts) ==
    LET avg == RatioMean(posts, "comments")
        score == IF FracGE(avg, 1, 1000) /\ FracLE(avg, 20, 1000) THEN 90
                 ELSE IF FracGE(avg, 5, 10000) /\ FracLT(avg, 1, 1000) THEN 70
                 ELSE IF FracGT(avg, 2, 100) /\ FracLE(avg, 5, 100) THEN 75
                 ELSE IF FracLT(avg, 5, 10000) THEN 40
                 ELSE 50
    IN  IF avg.n = 0 THEN 50 ELSE Max(0, score)

activity_stability(influencer) ==
    LET interval == influencer.avg_upload_interval_days
    IN  IF interval = 0 THEN 50
        ELSE IF 10 <= interval /\ interval <= 70 THEN 90
        ELSE IF 5 <= interval /\ interval < 10 THEN 75
        ELSE IF 70 < interval /\ interval <= 140 THEN 80
        ELSE IF interval < 5 THEN 40
        ELSE 60

geographic_consistency(influencer) ==
    LET audience == influencer.audience_countries
        kr_ratio == IF "KR" \in DOMAIN audience THEN audience["KR"] ELSE 0
        posts == influencer.recent_posts
        has_korean == TextHasHangul(influencer.bio)
                      \/ \E i \in 1..Len(posts) : TextHasHangul(posts[i].caption)
        is_korean_target == has_korean \/ kr_ratio >= 50
    IN  IF DOMAIN audience = {} THEN 80
        ELSE IF is_korean_target
             THEN IF kr_ratio >= 70 THEN 95
                  ELSE IF kr_ratio >= 50 THEN 90
                  ELSE IF kr_ratio >= 35 THEN 80
                  ELSE 65
        ELSE 75

\* a scorer that remembers having scored: the base score of a later call is 0
BaseScoreRemembered(v_score, a_score, e_score, acs_score) ==
    IF fis = NoResult
    THEN w_view * v_score + w_comment * e_score + w_engagement * a_score
         + w_activity * acs_score
    ELSE 0

\* base_score in 1/100 point
BaseScore(v_score, a_score, e_score, acs_score) ==
    w_view * v_score + w_comment * e_score + w_engagement * a_score + w_activity * acs_score

\* final_score = base_score * (d_score / 100) + (w_geo * d_score), clamped to
\* [0, 100]; in 1/10000 point.
\* the geographic term added unweighted and the sum left unclamped
FinalScoreGeoUnweighted(base_score, d_score) == base_score * d_score + 10000 * d_score

\* the geographic term left out of the sum
FinalScoreGeoDropped(base_score, d_score) == Max(0, Min(1000000, base_score * d_score))

FinalScore(base_score, d_score) ==
    Max(0, Min(1000000, base_score * d_score + (w_geo * 100) * d_score))

\* the 'trusted' threshold taken as 75 instead of 80
VerdictThreshold75(final_score) ==
    IF final_score >= 750000 THEN "trusted"
    ELSE IF final_score >= 600000 THEN "caution"
    ELSE "suspect"

Verdict(final_score) ==
    IF final_score >= 800000 THEN "trusted"        \* sinroe gyejeong
    ELSE IF final_score >= 600000 THEN "caution"   \* juui piryo
    ELSE "suspect"                                 \* heosu uisim

calculate(influencer, tieUp) ==
    LET posts == influencer.recent_posts
        v_score == view_variability(posts)
        a_score == engagement_asymmetry(posts)
        e_score == comment_entropy(posts)
        acs_score == activity_stability(influencer)
        d_score == geographic_consistency(influencer)
        final_score == FinalScore(BaseScore(v_score, a_score, e_score, acs_score), d_score)
    IN  [username |-> influencer.username,
         fis_score |-> RoundDiv(final_score, 1000, tieUp),
         verdict |-> Verdict(final_score),
         breakdown |-> [view_variability |-> v_score,
                        engagement_asymmetry |-> a_score,
                        comment_entropy |-> e_score,
                        activity_stability |-> acs_score,
                        geographic_consistency |-> d_score]]

(***************************************************************************)
(* InfluencerClassifier (processors.py)                                    *)
(*                                                                         *)
(* Keyword scores are in units of 1/2 (the weights are 1.0, 2.0, 2.5 and   *)
(* 3.0).  A confidence is the exact fraction [num, den]: expert_score /    *)
(* total in the keyword branch, thousandths in the other branches.         *)
(***************************************************************************)
RECURSIVE ConcatAll(_)
ConcatAll(ss) == IF ss = <<>> THEN <<>> ELSE Head(ss) \o ConcatAll(Tail(ss))

\* ' '.join([p.get('caption', '') for p in posts])
Captions(posts) == ConcatAll([i \in 1..Len(posts) |-> posts[i].caption])

\* f"{bio} {captions}"
FullText(influencer) == influencer.bio \o Captions(influencer.recent_posts)

RECURSIVE SumOver(_, _)
\* sum of f[x] over the finite set S
SumOver(S, f) ==
    IF S = {} THEN 0
    ELSE LET x == CHOOSE y \in S : TRUE IN f[x] + SumOver(S \ {x}, f)

\* expert_score += count * weight, over EXPERT_KEYWORDS
ExpertKeywordScore(full_text) ==
    SumOver(EXPERT_KEYWORDS, [kw \in EXPERT_KEYWORDS |-> Count(full_text, kw) * EXPERT_WEIGHTS(kw)])

\* trend_score += count * weight, over TRENDSETTER_KEYWORDS
TrendKeywordScore(full_text) ==
    SumOver(TRENDSETTER_KEYWORDS,
            [kw \in TRENDSETTER_KEYWORDS |-> Count(full_text, kw) * TRENDSETTER_WEIGHTS(kw)])

Frac(num, den) == [num |-> num, den |-> den]

\* 1 - c
OneMinus(c) == Frac(c.den - c.num, c.den)

\* the keyword branch with the winning score left un-normalised (no "/ total")
KeywordDecisionRaw(expert_score, trend_score) ==
    IF expert_score > trend_score
    THEN [classification |-> "Expert", confidence |-> Frac(expert_score, 2)]
    ELSE [classification |-> "Trendsetter", confidence |-> Frac(trend_score, 2)]

\* the keyword branch with a tie going to Expert (>= in place of >)
KeywordDecisionTieExpert(expert_score, trend_score) ==
    LET total == expert_score + trend_score
    IN  IF expert_score * total >= trend_score * total
        THEN [classification |-> "Expert", confidence |-> Frac(expert_score, total)]
        ELSE [classification |-> "Trendsetter", confidence |-> Frac(trend_score, total)]

\* total != 0: expert_ratio = expert_score / total, trend_ratio = trend_score / total
KeywordDecision(expert_score, trend_score) ==
    LET total == expert_score + trend_score
    IN  IF expert_score * total > trend_score * total   \* expert_ratio > trend_ratio
        THEN [classification |-> "Expert", confidence |-> Frac(expert_score, total)]
        ELSE [classification |-> "Trendsetter", confidence |-> Frac(trend_score, total)]

\* VisualDecision with the cap of 0.8 on the confidence left out
VisualDecisionUncapped(image_analysis) ==
    LET trend_rel == image_analysis.trend_relevance_score
        prof == image_analysis.professionalism_score
    IN  IF image_analysis.present
        THEN IF trend_rel > prof /\ trend_rel > 500
             THEN [classification |-> "Trendsetter", confidence |-> Frac(trend_rel, 1000)]
             ELSE IF prof > trend_rel /\ prof > 500
             THEN [classification |-> "Expert", confidence |-> Frac(prof, 1000)]
             ELSE [classification |-> "Trendsetter", confidence |-> Frac(500, 1000)]
        ELSE [classification |-> "Trendsetter", confidence |-> Frac(400, 1000)]

\* total == 0: the image analysis decides
VisualDecision(image_analysis) ==
    LET trend_rel == image_analysis.trend_relevance_score
        prof == image_analysis.professionalism_score
    IN  IF image_analysis.present
        THEN IF trend_rel > prof /\ trend_rel > 500
             THEN [classification |-> "Trendsetter", confidence |-> Frac(Min(800, trend_rel), 1000)]
             ELSE IF prof > trend_rel /\ prof > 500
             THEN [classification |-> "Expert", confidence |-> Frac(Min(800, prof), 1000)]
             ELSE [classification |-> "Trendsetter", confidence |-> Frac(500, 1000)]
        ELSE [classification |-> "Trendsetter", confidence |-> Frac(400, 1000)]

\* the role vector with the confidence always first, whatever the label
RoleVectorConfidenceFirst(classification, confidence) ==
    <<confidence, OneMinus(confidence)>>

\* role_vector = [confidence, 1 - confidence] or [1 - confidence, confidence]
RoleVector(classification, confidence) ==
    IF classification = "Expert"
    THEN <<confidence, OneMinus(confidence)>>
    ELSE <<OneMinus(confidence), confidence>>

classify(influencer, tieUp) ==
    LET full_text == FullText(influencer)
        expert_score == ExpertKeywordScore(full_text)
        trend_score == TrendKeywordScore(full_text)
        total == expert_score + trend_score
        d == IF total = 0 THEN VisualDecision(influencer.image_analysis)
             ELSE KeywordDecision(expert_score, trend_score)
    IN  [username |-> influencer.username,
         classification |-> d.classification,
         confidence |-> RoundDiv(d.confidence.num * 1000, d.confidence.den, tieUp),
         role_vector |-> RoleVector(d.classification, d.confidence),
         expert_keywords |-> {kw \in EXPERT_KEYWORDS : Count(full_text, kw) > 0},
         trend_keywords |-> {kw \in TRENDSETTER_KEYWORDS : Count(full_text, kw) > 0}]

\* which of the three branches of classify a record takes
ClassifyBranch(influencer) ==
    IF ExpertKeywordScore(FullText(influencer)) + TrendKeywordScore(FullText(influencer)) # 0
    THEN "keyword"
    ELSE IF influencer.image_analysis.present THEN "visual" ELSE "default"

(***************************************************************************)
(* Brand contexts.  Field names are the dictionary keys of brand_data.     *)
(*   product_type          a word, "" when empty                           *)
(*   marketing_approach    "" when None                                    *)
(*   product_lines         sequence of <<line name, line info>> in         *)
(*                         dictionary order                                *)
(***************************************************************************)

(***************************************************************************)
(* vectorizer.py.  Inputs of a vector are in 1/1000, the components of a   *)
(* normalised vector in 1/10000.                                           *)
(***************************************************************************)
RECURSIVE ISqrtBetween(_, _, _)
\* the largest r in lo..hi with r * r <= x
ISqrtBetween(x, lo, hi) ==
    IF lo >= hi THEN lo
    ELSE LET mid == (lo + hi + 1) \div 2
         IN  IF mid * mid <= x THEN ISqrtBetween(x, mid, hi)
             ELSE ISqrtBetween(x, lo, mid - 1)

\* floor(sqrt(x)), 0 <= x < 2^31
ISqrt(x) == ISqrtBetween(x, 0, 46340)

SumSquares(vector) == SumSeq([i \in 1..Len(vector) |-> vector[i] * vector[i]])

\* the vector returned as it was built
normalizeSkipped(vector) == vector

\* _normalize: vector in 1/1000 -> unit vector in 1/10000 (zero vector unchanged)
normalize(vector) ==
    LET magnitude == ISqrt(100 * SumSquares(vector))     \* in 1/10000
    IN  IF magnitude > 0
        THEN [i \in 1..Len(vector) |-> (vector[i] * 100000) \div magnitude]
        ELSE vector

\* PRODUCT_PROFESSIONAL_INDEX.get(product_type, 0.4)
RECURSIVE IndexGet(_, _)
IndexGet(table, product_type) ==
    IF table = <<>> THEN 400
    ELSE IF Head(table)[1] = product_type THEN Head(table)[2]
    ELSE IndexGet(Tail(table), product_type)

\* for prod, idx in table.items(): if prod in product_type: return idx (first hit)
RECURSIVE IndexFirstContained(_, _, _)
IndexFirstContained(table, product_type, default) ==
    IF table = <<>> THEN default
    ELSE IF Head(table)[1] \in Parts(product_type) /\ product_type # "" THEN Head(table)[2]
    ELSE IndexFirstContained(Tail(table), product_type, default)

BrandVector(brand_data) ==
    LET aesthetic_style == brand_data.aesthetic_style
        full_text == <<aesthetic_style>> \o brand_data.slogan \o brand_data.core_values
        luxury_score == IF aesthetic_style = "Luxury" THEN 900
                        ELSE Min(1000, CountIn(BrandLuxuryKeywords, full_text) * 150)
        product_type == brand_data.product_type
        professional_index ==
            IndexFirstContained(PRODUCT_PROFESSIONAL_INDEX, product_type,
                                IndexGet(PRODUCT_PROFESSIONAL_INDEX, product_type))
        expert_pref == IF professional_index >= 700 THEN 800
                       ELSE IF professional_index <= 400 THEN 200 ELSE 500
        trend_pref == IF professional_index >= 700 THEN 200
                      ELSE IF professional_index <= 400 THEN 800 ELSE 500
        campaign == brand_data.campaign_description
        style_scores == get_style_scores(aesthetic_style)
        modern_score == Max(Min(1000, CountIn(BrandTrendyKeywords, campaign) * 150 + 300),
                            style_scores.trendy)
        natural_score == Max(Min(1000, CountIn(BrandNaturalKeywords, campaign) * 150 + 300),
                             style_scores.natural)
        colorfulness == Max(Min(1000, CountIn(BrandColorfulKeywords, campaign) * 150 + 300),
                            style_scores.colorful)
    IN  <<luxury_score, professional_index, expert_pref, trend_pref,
          colorfulness, natural_score, modern_score>>

\* BrandVectorizer.vectorize
brand_vectorize(brand_data) == normalize(BrandVector(brand_data))

\* a fraction in 1/1000
Milli(c) == (c.num * 1000) \div c.den

InfluencerVector(influencer, classification_result) ==
    LET bio == influencer.bio
        captions == Captions(influencer.recent_posts)
        image_analysis == influencer.image_analysis
        expert_score == Milli(classification_result.role_vector[1])
        trendsetter_score == Milli(classification_result.role_vector[2])
        luxury_count == CountIn(InfLuxuryKeywords, bio)
        mass_count == CountIn(InfMassKeywords, bio)
        luxury0 == IF luxury_count > mass_count THEN 700 + luxury_count * 100
                   ELSE IF mass_count > luxury_count THEN 300 - mass_count * 50
                   ELSE 500
        dominant_style == image_analysis.dominant_style
        luxury1 == IF image_analysis.present /\ dominant_style = "luxury" THEN Max(luxury0, 850)
                   ELSE IF image_analysis.present /\ dominant_style = "minimal" THEN Max(luxury0, 600)
                   ELSE luxury0
        luxury_score == Max(0, Min(1000, luxury1))
        professional0 == (expert_score * 8) \div 10 + 100
        professional_score == IF image_analysis.present
                              THEN (professional0 + image_analysis.professionalism_score) \div 2
                              ELSE professional0
        colorful0 == CountIn(InfColorfulKeywords, captions) * 200
        natural0 == CountIn(InfNaturalKeywords, captions) * 200
        modern0 == CountIn(InfModernKeywords, captions) * 200
        colorful1 == IF image_analysis.present /\ dominant_style = "colorful"
                     THEN Max(colorful0, 800) ELSE colorful0
        natural1 == IF image_analysis.present /\ dominant_style = "natural"
                    THEN Max(natural0, 800) ELSE natural0
        modern1 == IF image_analysis.present /\ dominant_style = "trendy"
                   THEN Max(modern0, 800) ELSE modern0
        modern2 == IF image_analysis.present
                   THEN (modern1 + image_analysis.trend_relevance_score) \div 2 ELSE modern1
    IN  <<luxury_score, professional_score, expert_score, trendsetter_score,
          Min(1000, colorful1 + 300), Min(1000, natural1 + 300), Min(1000, modern2 + 300)>>

\* InfluencerVectorizer.vectorize
inf_vectorize(influencer, classification_result) ==
    normalize(InfluencerVector(influencer, classification_result))

\* cosine_similarity of two vectors of equal length, in 1/10000
cosine_similarity(vec1, vec2) ==
    LET dot_product == SumSeq([i \in 1..Len(vec1) |-> vec1[i] * vec2[i]])
        mag1 == ISqrt(SumSquares(vec1))
        mag2 == ISqrt(SumSquares(vec2))
    IN  IF mag1 = 0 \/ mag2 = 0 THEN 0
        ELSE Min(10000, dot_product \div ((mag1 * mag2) \div 10000))

(***************************************************************************)
(* InfluencerMatcher (matcher.py).  Scores are in 1/10000, trust scores    *)
(* in tenths of a point, image scores in 1/1000.                           *)
(***************************************************************************)

\* an argument that was not supplied (expert_count=None, trendsetter_count=None)
None == -1

\* Python's hash(s) % 1000: salted anew by each interpreter process, hash('') = 0
StrCode(s) ==
    CASE s = "ryeo" -> 3
      [] s = "mijyangsen" -> 5
      [] s = "raboeichi" -> 7
      [] s = "ayunchae" -> 11
      [] s = "salon_director" -> 13
      [] s = "style_creator" -> 17
      [] s = "colorist" -> 19
      [] s = "daily_reviewer" -> 23
      [] s = "salon_owner_bot" -> 29
      [] s = "sponsored_feed" -> 31
      [] s = "studio_look" -> 37
      [] s = "no_data" -> 41
      [] OTHER -> 43

Hash1000(s, hashseed) ==
    IF s = "" THEN 0 ELSE (StrCode(s) * (61 + 36 * hashseed) + 307 * hashseed) % 1000

\* index of the first line (in dictionary order) named product_line, or 0
RECURSIVE LineNamed(_, _, _)
LineNamed(product_lines, i, product_line) ==
    IF i > Len(product_lines) THEN 0
    ELSE IF product_lines[i].name = product_line THEN i
    ELSE LineNamed(product_lines, i + 1, product_line)

\* index of the first line (in dictionary order) whose name contains product_type, or 0
RECURSIVE LineContaining(_, _, _)
LineContaining(product_lines, i, product_type) ==
    IF i > Len(product_lines) THEN 0
    ELSE IF product_type # "" /\ product_type \in Parts(product_lines[i].name) THEN i
    ELSE LineContaining(product_lines, i + 1, product_type)

\* the product info of a resolved line; final_marketing_approach is
\*   description_marketing_approach                       if the override flag and it are set,
\*   description_marketing_approach or the line's approach otherwise
LineProductInfo(line_name, line_info, description_marketing_approach, description_override) ==
    [product_type |-> line_name,
     marketing_approach |-> IF description_override /\ description_marketing_approach # ""
                            THEN description_marketing_approach
                            ELSE IF description_marketing_approach # ""
                            THEN description_marketing_approach
                            ELSE line_info.marketing_approach,
     ideal_influencer |-> line_info.ideal_influencer,
     expertise_keywords |-> line_info.expertise_keywords]

get_product_info(brand_data, product_line) ==
    LET product_lines == brand_data.product_lines
        description_marketing_approach == brand_data.marketing_approach
        description_override == brand_data.description_override
        product_type == brand_data.product_type
        byLine == IF product_line = "" THEN 0 ELSE LineNamed(product_lines, 1, product_line)
        byType == LineContaining(product_lines, 1, product_type)
        expertise_level == brand_data.expertise_level
    IN  IF byLine > 0
        THEN LineProductInfo(product_line, product_lines[byLine],
                             description_marketing_approach, description_override)
        ELSE IF byType > 0
        THEN LineProductInfo(product_lines[byType].name, product_lines[byType],
                             description_marketing_approach, description_override)
        ELSE IF description_marketing_approach # ""
        THEN [product_type |-> IF product_type # "" THEN product_type ELSE "ilban",
              marketing_approach |-> description_marketing_approach,
              ideal_influencer |->
                  IF description_marketing_approach = "professional" THEN "Expert"
                  ELSE IF description_marketing_approach = "consumer" THEN "Trendsetter"
                  ELSE "Both",
              expertise_keywords |-> <<>>]
        ELSE [product_type |-> IF product_type # "" THEN product_type ELSE "ilban",
              marketing_approach |->
                  IF expertise_level \in {"high", "medium_high"} THEN "expert_oriented"
                  ELSE "consumer",
              ideal_influencer |->
                  IF expertise_level = "high" THEN "Expert"
                  ELSE IF expertise_level = "medium_high" THEN "Both"
                  ELSE "Trendsetter",
              expertise_keywords |-> <<>>]

get_preferred_type_v2(marketing_approach, ideal_influencer) ==
    IF marketing_approach = "professional" THEN "Expert"
    ELSE IF marketing_approach = "consumer" THEN "Trendsetter"
    ELSE IF ideal_influencer # "Both" THEN ideal_influencer ELSE "Expert"

evaluate_expertise(influencer, expertise_keywords) ==
    LET bio == LowerText(influencer.bio)
        captions == LowerText(Captions(influencer.recent_posts))
        full_text == bio \o captions
        matched == CountSeqLowerIn(expertise_keywords, full_text)
        expert_matched == CountIn(ExpertiseExpertKeywords, full_text)
        edu_matched == CountIn(ExpertiseEduKeywords, full_text)
        score == 5000
                 + (IF expertise_keywords # <<>> THEN Min(2000, matched * 500) ELSE 0)
                 + Min(1500, expert_matched * 300)
                 + Min(1000, edu_matched * 300)
                 + (IF AnyIn(CertificationWords, influencer.bio) THEN 500 ELSE 0)
    IN  Min(10000, score)

\* the fit score with the professional branch left out: every approach scored
\* as expert_oriented is
calculate_fit_score_unbranched(classification, marketing_approach, influencer, expertise_score) ==
    IF classification = "Expert"
    THEN Min(10000, 8500 + expertise_score \div 10
                         + (IF AnyIn(FitResearchWords, influencer.bio) THEN 500 ELSE 0))
    ELSE 2500 + (influencer.image_analysis.professionalism_score - 300) * 2

calculate_fit_score(classification, marketing_approach, influencer, expertise_score) ==
    LET bio == influencer.bio
        image_analysis == influencer.image_analysis
        prof_score == image_analysis.professionalism_score
        trend_score == image_analysis.trend_relevance_score
    IN  IF marketing_approach = "professional"
        THEN IF classification = "Expert"
             THEN Min(10000, 9000 + (IF AnyIn(FitDirectorWords, bio) THEN 500 ELSE 0)
                                  + (IF AnyIn(FitSalonWords, bio) THEN 500 ELSE 0))
             ELSE 1500
        ELSE IF marketing_approach = "expert_oriented"
        THEN IF classification = "Expert"
             THEN Min(10000, 8500 + expertise_score \div 10
                                  + (IF AnyIn(FitResearchWords, bio) THEN 500 ELSE 0))
             ELSE 2500 + (prof_score - 300) * 2
        ELSE IF classification = "Trendsetter"
             THEN Min(10000, 8500 + ((trend_score - 500) * 15) \div 10
                                  + (IF AnyIn(FitLifestyleKeywords, bio) THEN 700 ELSE 0))
             ELSE 5000 + (prof_score - 300) * 2

\* the first product key contained in product_type decides the bio bonus
RECURSIVE BioMatchScore(_, _, _)
BioMatchScore(table, product_type, bio) ==
    IF table = <<>> THEN 0
    ELSE IF product_type # "" /\ Head(table)[1] \in Parts(Lower(product_type))
    THEN Min(2500, CountIn(Head(table)[2], LowerText(bio)) * 800)
    ELSE BioMatchScore(Tail(table), product_type, bio)

\* sum(1 for kw in keywords[:8] if kw.lower() in text)
KeyMatch(keywords, text) == CountSeqLowerIn(SubSeq(keywords, 1, Min(8, Len(keywords))), text)

calculate_brand_exclusivity_score(influencer, brand_name, image_analysis, hashseed) ==
    LET inf_text == LowerText(influencer.bio)
                    \o LowerText(Captions(influencer.recent_posts))
                    \o LowerText(image_analysis.vibe)
        current_match == KeyMatch(get_brand_specific_keywords(brand_name), inf_text)
        competitors == competitor_brands(brand_name)
        competitor_scores == [i \in 1..Len(competitors) |->
                                 KeyMatch(get_brand_specific_keywords(competitors[i]), inf_text)]
        \* diff, in 1/Len(competitors)
        diff == current_match * Len(competitors) - SumSeq(competitor_scores)
        brand_seed == Hash1000(brand_name, hashseed) % 100
        inf_seed == Hash1000(influencer.username, hashseed) % 100
    IN  IF competitors # <<>> /\ diff > 0
        THEN Min(1500, (diff * 400) \div Len(competitors))
        ELSE IF competitors # <<>> /\ diff < 0
        THEN Max(-1000, -((-diff * 300) \div Len(competitors)))
        ELSE (brand_seed + inf_seed) \div 2 - 250

calculate_brand_identity_match(influencer, brand_data, image_analysis, hashseed) ==
    LET inf_text == LowerText(influencer.bio)
                    \o LowerText(Captions(influencer.recent_posts))
                    \o LowerText(image_analysis.vibe)
                    \o LowerText(image_analysis.aesthetic_tags)
        brand_name == brand_data.brand_name
        brand_specific_keywords == get_brand_specific_keywords(brand_name)
        matched == CountSeqLowerIn(brand_specific_keywords, inf_text)
        core_value_match == CountSeqLowerIn(brand_data.core_values, inf_text)
        focus_words == LowerText(brand_data.expertise_focus)
        focus_match == Cardinality({i \in 1..Len(focus_words) :
                                       /\ focus_words[i] \notin ShortWords
                                       /\ Has(inf_text, focus_words[i])})
    IN  Min(800, matched * 200) + Min(400, core_value_match * 100)
        + Min(300, focus_match * 100)
        + calculate_brand_exclusivity_score(influencer, brand_name, image_analysis, hashseed)

EngagementBonus(posts, followers) ==
    LET total_engagement == SumSeq([i \in 1..Len(posts) |-> posts[i].likes + posts[i].comments])
        \* engagement_rate > p/100  <=>  total * 100 > p * len(posts) * followers
        Above(p) == total_engagement * 100 > p * Len(posts) * followers
    IN  IF posts = <<>> \/ followers <= 0 THEN 0
        ELSE IF Above(8) THEN 1500
        ELSE IF Above(5) THEN 1000
        ELSE IF Above(3) THEN 500
        ELSE IF Above(1) THEN 200
        ELSE 0

calculate_unique_score_v2(influencer, brand_data, classification, marketing_approach, hashseed) ==
    LET bio == influencer.bio
        image_analysis == influencer.image_analysis
        followers == influencer.followers
        brand_style == brand_data.aesthetic_style
        dominant_style == image_analysis.dominant_style
        bio_match_score == BioMatchScore(product_keywords, brand_data.product_type, bio)
        style_score == IF brand_style \in StyleMatchKeys
                       THEN IF dominant_style \in style_match_map(brand_style) THEN 2000
                            ELSE IF dominant_style # "" THEN 500 ELSE 0
                       ELSE 0
        role_score ==
            IF classification = "Trendsetter"
            THEN (image_analysis.trend_relevance_score - 400) * 3
                 + (IF followers >= 100000 THEN 500
                    ELSE IF followers >= 50000 THEN 300
                    ELSE IF followers >= 10000 THEN 100 ELSE 0)
            ELSE IF classification = "Expert"
            THEN (image_analysis.professionalism_score - 400) * 3
                 + Min(1000, CountIn(UniqueExpertKeywords, bio) * 300)
            ELSE 0
        approach_bonus ==
            IF marketing_approach = "professional"
            THEN IF AnyIn(ProfessionalBioKeywords, bio) THEN 1000 ELSE 0
            ELSE IF marketing_approach = "expert_oriented"
            THEN IF AnyIn(ExpertOrientedBioKeywords, bio) THEN 1000 ELSE 0
            ELSE IF AnyIn(ConsumerBioKeywords, bio) THEN 1000 ELSE 0
        vibe == LowerText(image_analysis.vibe)
        vibe_bonus ==
            IF vibe = <<>> THEN 0
            ELSE IF AnyIn(ExpertVibeWords, vibe) /\ classification = "Expert" THEN 500
            ELSE IF AnyIn(TrendVibeWords, vibe) /\ classification = "Trendsetter" THEN 500
            ELSE 0
        brand_identity_score ==
            calculate_brand_identity_match(influencer, brand_data, image_analysis, hashseed)
        \* personal_seed = hash % 1000 / 10000, follower_factor = followers % 10000 / 100000
        \* personal_variation = (seed + factor - 0.1) * 0.5, here from 1/100000 to 1/10000
        variation100k == Hash1000(influencer.username, hashseed) * 10
                         + (followers % 10000) - 10000
        personal_variation == IF variation100k >= 0 THEN variation100k \div 20
                              ELSE -((-variation100k) \div 20)
        score == 3000 + bio_match_score + style_score + role_score
                 + EngagementBonus(influencer.recent_posts, followers)
                 + approach_bonus + vibe_bonus + brand_identity_score + personal_variation
    IN  Max(0, Min(10000, score))

\* total_score without the final max(0.50, min(0.99, .))
ScaledScoreUnclamped(score_min, score_max, raw_normalized) ==
    score_min + ((score_max - score_min) * raw_normalized) \div 10000

\* the normalised raw score stretched over score_max instead of the width of the band
ScaledScoreFullWidth(score_min, score_max, raw_normalized) ==
    Max(5000, Min(9900, score_min + (score_max * raw_normalized) \div 10000))

ScaledScore(score_min, score_max, raw_normalized) ==
    Max(5000, Min(9900, score_min + ((score_max - score_min) * raw_normalized) \div 10000))

calculate_match_score_v2(brand_vector, inf_vector, fis_score, classification, marketing_approach, influencer, brand_data, expertise_score, hashseed) ==
    LET similarity == cosine_similarity(brand_vector, inf_vector)
        similarity_norm == (similarity + 10000) \div 2
        unique_score == calculate_unique_score_v2(influencer, brand_data, classification,
                                                  marketing_approach, hashseed)
        fis_norm == fis_score * 10
        raw_score == (similarity_norm * 2 + unique_score * 4 + fis_norm * 4) \div 10
        fit_score == calculate_fit_score(classification, marketing_approach, influencer,
                                         expertise_score)
        score_min == 4000 + (fit_score * 3) \div 10
        score_max == 6500 + (fit_score * 3) \div 10
        raw_normalized == Max(0, Min(10000, ((raw_score - 5000) * 10) \div 4))
    IN  [total_score |-> ScaledScore(score_min, score_max, raw_normalized),
         breakdown |-> [similarity |-> similarity_norm, unique |-> unique_score,
                        fis |-> fis_norm, raw_score |-> raw_score,
                        fit_score |-> fit_score]]

\* sorted(results, key=match_score, reverse=True): stable, equal scores keep their order
RECURSIVE InsertByScore(_, _)
InsertByScore(sorted, r) ==
    IF sorted = <<>> THEN <<r>>
    ELSE IF Head(sorted).match_score >= r.match_score
    THEN <<Head(sorted)>> \o InsertByScore(Tail(sorted), r)
    ELSE <<r>> \o sorted

RECURSIVE SortedUpTo(_, _)
SortedUpTo(results, n) ==
    IF n = 0 THEN <<>>
    ELSE Bind(SortedUpTo(results, n - 1), LAMBDA sorted : InsertByScore(sorted, results[n]))

\* the list left in input order
SortByScoreSkipped(results) == results

SortByScore(results) == SortedUpTo(results, Len(results))

\* s[-n:] for n >= 0: the last n entries instead of the first
SliceFromEnd(s, n) ==
    IF n >= 0 THEN SubSeq(s, Len(s) - Min(n, Len(s)) + 1, Len(s))
    ELSE SubSeq(s, 1, Max(0, Len(s) + n))

\* s[:n]
Slice(s, n) ==
    IF n >= 0 THEN SubSeq(s, 1, Min(n, Len(s)))
    ELSE SubSeq(s, 1, Max(0, Len(s) + n))

OfType(results, type) == SelectIdx(results, [i \in 1..Len(results) |->
                                                results[i].classification = type])

\* the requested count taken as it is
ExplicitCountUncapped(pool_size, count) == count

\* min(len(pool), count)
ExplicitCount(pool_size, count) == Min(pool_size, count)

\* max(1, int(top_k * 0.6))
PreferredShare(top_k) == Max(1, (top_k * 6) \div 10)

\* [exp_count, trend_count] before the shortfall is filled
InitialCounts(experts_len, trendsetters_len, top_k, preferred_type, expert_count, trendsetter_count) ==
    IF expert_count # None /\ trendsetter_count # None
    THEN [exp |-> ExplicitCount(experts_len, expert_count),
          trend |-> ExplicitCount(trendsetters_len, trendsetter_count)]
    ELSE IF preferred_type = "Expert"
    THEN LET exp_count == Min(experts_len, PreferredShare(top_k))
         IN  [exp |-> exp_count, trend |-> Min(trendsetters_len, top_k - exp_count)]
    ELSE IF preferred_type = "Trendsetter"
    THEN LET trend_count == Min(trendsetters_len, PreferredShare(top_k))
         IN  [exp |-> Min(experts_len, top_k - trend_count), trend |-> trend_count]
    ELSE LET exp_count == Min(experts_len, Max(1, top_k \div 2))
         IN  [exp |-> exp_count, trend |-> Min(trendsetters_len, top_k - exp_count)]

\* the shortfall left as it is: no creator taken from the other pool
FilledCountsNoBackfill(experts_len, trendsetters_len, top_k, initial) == initial

\* the shortfall is filled from the experts first, then from the trendsetters
FilledCounts(experts_len, trendsetters_len, top_k, initial) ==
    IF initial.exp + initial.trend < top_k
    THEN LET remaining == top_k - initial.exp - initial.trend
             extra == IF experts_len > initial.exp
                      THEN Min(experts_len - initial.exp, remaining) ELSE 0
             left == remaining - extra
         IN  [exp |-> initial.exp + extra,
              trend |-> IF left > 0 /\ trendsetters_len > initial.trend
                        THEN initial.trend + Min(trendsetters_len - initial.trend, left)
                        ELSE initial.trend]
    ELSE initial

select_diverse(results, top_k, preferred_type, expert_count, trendsetter_count) ==
    Bind(SortByScore(OfType(results, "Expert")), LAMBDA experts :
    Bind(SortByScore(OfType(results, "Trendsetter")), LAMBDA trendsetters :
    Bind(InitialCounts(Len(experts), Len(trendsetters), top_k, preferred_type,
                       expert_count, trendsetter_count), LAMBDA initial :
    Bind(FilledCounts(Len(experts), Len(trendsetters), top_k, initial), LAMBDA counts :
    Bind(Slice(experts, counts.exp) \o Slice(trendsetters, counts.trend), LAMBDA union :
    Bind(SortByScore(union), LAMBDA selected :
         Slice(selected, top_k)))))))

\* every creator kept
PassesFisAlways(fis_score, min_fis) == TRUE

\* the filter inverted: exactly the creators below min_fis kept
PassesFisInverted(fis_score, min_fis) == fis_score < min_fis

\* not (fis_score < min_fis)
PassesFis(fis_score, min_fis) == ~(fis_score < min_fis)

\* min(100.0, max(0.0, round(match_score * 100, 1))), in tenths of a percent
DisplayScore(match_score, tieUp) == Min(1000, Max(0, RoundDiv(match_score, 10, tieUp)))

\* one pass of the loop over the creators: the entry appended to all_results
\* if the creator's trust score passes the filter
analyse(brand_data, product_line, influencer, hashseed, tieUp) ==
    LET brand_vector == brand_vectorize(brand_data)
        product_info == get_product_info(brand_data, product_line)
        marketing_approach == product_info.marketing_approach
        classification == classify(influencer, tieUp)
        fis_result == calculate(influencer, tieUp)
        inf_vector == inf_vectorize(influencer, classification)
        expertise_score == evaluate_expertise(influencer, product_info.expertise_keywords)
        match_result ==
            calculate_match_score_v2(brand_vector, inf_vector, fis_result.fis_score,
                classification.classification, marketing_approach, influencer,
                brand_data, expertise_score, hashseed)
    IN  [username |-> influencer.username,
         followers |-> influencer.followers,
         classification |-> classification.classification,
         confidence |-> classification.confidence,
         fis_score |-> fis_result.fis_score,
         fis_verdict |-> fis_result.verdict,
         match_score |-> match_result.total_score,
         score_breakdown |-> match_result.breakdown,
         similarity |-> cosine_similarity(brand_vector, inf_vector),
         expertise_score |-> expertise_score,
         marketing_approach |-> marketing_approach]

(***************************************************************************)
(* The creators and the campaigns of the recommendation calls               *)
(***************************************************************************)
Post(views, likes, comments, caption) ==
    [views |-> views, likes |-> likes, comments |-> comments, caption |-> caption]

Image(dominant_style, professionalism_score, trend_relevance_score, vibe, aesthetic_tags) ==
    [present |-> TRUE, dominant_style |-> dominant_style,
     professionalism_score |-> professionalism_score,
     trend_relevance_score |-> trend_relevance_score,
     vibe |-> vibe, aesthetic_tags |-> aesthetic_tags]

Korean == [c \in {"KR", "US"} |-> IF c = "KR" THEN 92 ELSE 3]

Creator(username, followers, bio, recent_posts, audience_countries, avg_upload_interval_days, image_analysis) ==
    [username |-> username, followers |-> followers, bio |-> bio,
     recent_posts |-> recent_posts, audience_countries |-> audience_countries,
     avg_upload_interval_days |-> avg_upload_interval_days,
     image_analysis |-> image_analysis]

\* the creators the lists are drawn from, Experts and Trendsetters alternating
CreatorPool ==
    << Creator("salon_director", 45000, Bio_salon_director,
               <<Post(200, 12, 2, Cap_treatment), Post(600, 30, 4, Cap_treatment)>>,
               Korean, 32,
               Image("luxury", 900, 300, Vibe_professional, Tags_pro)),
       Creator("style_creator", 120000, Bio_style_creator,
               <<Post(230, 14, 2, Cap_ootd), Post(600, 36, 5, Cap_trend)>>,
               Korean, 32,
               Image("trendy", 300, 900, Vibe_trendy, Tags_trendy)),
       Creator("colorist", 800, Bio_colorist,
               <<Post(200, 70, 12, Cap_trend), Post(600, 70, 12, Cap_treatment)>>,
               Korean, 32, NoImage),
       Creator("daily_reviewer", 52000, Bio_daily_reviewer,
               <<Post(200, 12, 2, Cap_ootd), Post(600, 30, 4, Cap_herbal)>>,
               Korean, 32, NoImage),
       Creator("salon_owner_bot", 45000, Bio_salon_owner,
               <<Post(200, 70, 0, <<>>), Post(200, 70, 0, <<>>)>>,
               [c \in {"US"} |-> 80], 0, NoImage),
       Creator("sponsored_feed", 9000, Bio_sponsored, <<>>, NoAudience, 100, NoImage),
       Creator("studio_look", 15000, Bio_latin,
               <<Post(230, 14, 2, <<>>), Post(600, 36, 5, <<>>)>>,
               Korean, 32,
               Image("minimal", 900, 300, <<>>, <<>>)),
       Creator("no_data", 300, <<>>, <<>>, NoAudience, 32, NoImage) >>

\* the sub-lists of pool that keep its order and hold at most n creators
RECURSIVE SubLists(_, _)
SubLists(pool, n) ==
    IF pool = <<>> \/ n = 0 THEN {<<>>}
    ELSE SubLists(Tail(pool), n)
         \cup {<<Head(pool)>> \o rest : rest \in SubLists(Tail(pool), n - 1)}

Creators == {CreatorPool[i] : i \in 1..Len(CreatorPool)}

CreatorLists == SubLists(CreatorPool, MaxCreators)

Line(name, marketing_approach, ideal_influencer, expertise_keywords) ==
    [name |-> name, marketing_approach |-> marketing_approach,
     ideal_influencer |-> ideal_influencer, expertise_keywords |-> expertise_keywords]

Brand(brand_name, aesthetic_style, slogan, core_values, expertise_focus, expertise_level, product_lines) ==
    [brand_name |-> brand_name, aesthetic_style |-> aesthetic_style, slogan |-> slogan,
     core_values |-> core_values, expertise_focus |-> expertise_focus,
     expertise_level |-> expertise_level, product_lines |-> product_lines]

\* brand_data as recommend_influencers builds it from a brand and a request
BrandData(brand, product_type, campaign_description, marketing_approach, description_override) ==
    [brand_name |-> brand.brand_name, slogan |-> brand.slogan,
     core_values |-> brand.core_values, expertise_focus |-> brand.expertise_focus,
     product_type |-> product_type, aesthetic_style |-> brand.aesthetic_style,
     campaign_description |-> campaign_description,
     expertise_level |-> brand.expertise_level, product_lines |-> brand.product_lines,
     marketing_approach |-> marketing_approach,
     description_override |-> description_override]

Brand_ryeo ==
    Brand("ryeo", "Natural", Slogan_ryeo, Values_ryeo, Focus_scalp, "medium_high",
          <<Line(PL_jayang, "expert_oriented", "Both", <<"dupi", "hanbang">>)>>)

Brand_mise ==
    Brand("mijyangsen", "Trendy", Slogan_mise, Values_mise, <<>>, "low",
          <<Line(PL_hello_bubble, "consumer", "Trendsetter", <<"yeomsaek">>)>>)

Brand_ayunchae ==
    Brand("ayunchae", "Luxury", <<>>, Values_ayunchae, <<>>, "high",
          <<Line(PL_pro_dye, "professional", "Expert", <<"yeomsaek", "sisul">>)>>)

Brand_labo ==
    Brand("raboeichi", "Minimal", <<>>, <<>>, Focus_scalp, "medium_high", <<>>)

\* the campaigns a call is made for: brand_data and product_line ("" when not given)
Campaigns ==
    { [brand_data |-> BrandData(Brand_ryeo, PT_shampoo, <<>>, "", FALSE),
       product_line |-> ""],
      [brand_data |-> BrandData(Brand_mise, PT_dye, Campaign_mz, "", FALSE),
       product_line |-> PL_hello_bubble],
      [brand_data |-> BrandData(Brand_ayunchae, PT_dye, <<>>, "", FALSE),
       product_line |-> PL_pro_dye],
      [brand_data |-> BrandData(Brand_labo, PT_scalp, <<>>, "", FALSE),
       product_line |-> ""],
      [brand_data |-> BrandData(Brand_ryeo, "", Campaign_natural, "consumer", TRUE),
       product_line |-> PL_unknown],
      [brand_data |-> BrandData(Brand_ryeo, PT_shampoo, Campaign_natural, "consumer", TRUE),
       product_line |-> PL_jayang] }

MinFisChoices == {400, 600}
\* <<expert_count, trendsetter_count>> as a request carries them
CountPairs == {<<None, None>>, <<None, 1>>, <<0, 2>>, <<1, 1>>, <<2, 1>>}
HashSeeds == {0, 1}

(***************************************************************************)
(* InfluencerMatcher.match                                                 *)
(***************************************************************************)
\* analyse, tabulated once over the campaigns and the creators of the pool
Analysed ==
    [tieUp \in BOOLEAN |-> [hashseed \in HashSeeds |-> [c \in Campaigns |->
        [influencer \in Creators |->
            analyse(c.brand_data, c.product_line, influencer, hashseed, tieUp)]]]]

\* match with the trust filter leaving the loop ("break") instead of skipping ("continue")
matchStopsAtFirstFailure(brand_data, creators, top_k, min_fis, expert_count, trendsetter_count, product_line, hashseed, tieUp) ==
    Bind(get_product_info(brand_data, product_line), LAMBDA product_info :
    Bind(get_preferred_type_v2(product_info.marketing_approach,
                               product_info.ideal_influencer), LAMBDA preferred_type :
    Bind(Analysed[tieUp][hashseed][[brand_data |-> brand_data,
                                    product_line |-> product_line]], LAMBDA analysis :
    Bind([i \in 1..Len(creators) |-> analysis[creators[i]]], LAMBDA analysed :
    Bind(SubSeq(analysed, 1, Cardinality({i \in 1..Len(analysed) :
             \A j \in 1..i : PassesFis(analysed[j].fis_score, min_fis)})), LAMBDA all_results :
    Bind(select_diverse(all_results, top_k, preferred_type, expert_count,
                        trendsetter_count), LAMBDA selected :
        [brand_info |-> [name |-> brand_data.brand_name,
                         style |-> brand_data.aesthetic_style,
                         product |-> product_info.product_type,
                         product_line |-> product_line,
                         marketing_approach |-> product_info.marketing_approach,
                         recommended_type |-> preferred_type,
                         expertise_level |-> brand_data.expertise_level],
         total_analyzed |-> Len(creators),
         total_passed_fis |-> Len(all_results),
         recommendations |->
             [i \in 1..Len(selected) |->
                 [rank |-> i,
                  username |-> selected[i].username,
                  followers |-> selected[i].followers,
                  type |-> selected[i].classification,
                  match_score |-> DisplayScore(selected[i].match_score, tieUp),
                  fis_score |-> selected[i].fis_score,
                  details |-> [confidence |-> selected[i].confidence,
                               similarity |-> selected[i].similarity,
                               fis_verdict |-> selected[i].fis_verdict,
                               score_breakdown |-> selected[i].score_breakdown,
                               expertise_score |-> selected[i].expertise_score,
                               marketing_approach |-> selected[i].marketing_approach]]]]))))))

match(brand_data, creators, top_k, min_fis, expert_count, trendsetter_count, product_line, hashseed, tieUp) ==
    Bind(get_product_info(brand_data, product_line), LAMBDA product_info :
    Bind(get_preferred_type_v2(product_info.marketing_approach,
                               product_info.ideal_influencer), LAMBDA preferred_type :
    Bind(Analysed[tieUp][hashseed][[brand_data |-> brand_data,
                                    product_line |-> product_line]], LAMBDA analysis :
    Bind([i \in 1..Len(creators) |-> analysis[creators[i]]], LAMBDA analysed :
    Bind(SelectIdx(analysed, [i \in 1..Len(analysed) |->
                                 PassesFis(analysed[i].fis_score, min_fis)]), LAMBDA all_results :
    Bind(select_diverse(all_results, top_k, preferred_type, expert_count,
                        trendsetter_count), LAMBDA selected :
        [brand_info |-> [name |-> brand_data.brand_name,
                         style |-> brand_data.aesthetic_style,
                         product |-> product_info.product_type,
                         product_line |-> product_line,
                         marketing_approach |-> product_info.marketing_approach,
                         recommended_type |-> preferred_type,
                         expertise_level |-> brand_data.expertise_level],
         total_analyzed |-> Len(creators),
         total_passed_fis |-> Len(all_results),
         recommendations |->
             [i \in 1..Len(selected) |->
                 [rank |-> i,
                  username |-> selected[i].username,
                  followers |-> selected[i].followers,
                  type |-> selected[i].classification,
                  match_score |-> DisplayScore(selected[i].match_score, tieUp),
                  fis_score |-> selected[i].fis_score,
                  details |-> [confidence |-> selected[i].confidence,
                               similarity |-> selected[i].similarity,
                               fis_verdict |-> selected[i].fis_verdict,
                               score_breakdown |-> selected[i].score_breakdown,
                               expertise_score |-> selected[i].expertise_score,
                               marketing_approach |-> selected[i].marketing_approach]]]]))))))


(***************************************************************************)
(* Stand-alone scoring of one creator record: FISCalculator.calculate      *)
(***************************************************************************)
FisViews == {0, 200, 230, 600}
FisLikes == {1, 70}
FisComments == {0, 1, 12}
FisIntervals == {0, 3, 5, 32, 100, 200}
FisAudiences == {NoAudience, [c \in {"KR"} |-> 20], [c \in {"KR"} |-> 35],
                 [c \in {"KR"} |-> 50], [c \in {"KR", "US"} |-> IF c = "KR" THEN 92 ELSE 3],
                 [c \in {"US"} |-> 80]}
FisBios == {<<"hair">>, <<"wonjang">>}

FisPosts == [views : FisViews, likes : FisLikes, comments : FisComments, caption : {<<>>}]

SeqsUpTo(S, n) == UNION {[1..k -> S] : k \in 0..n}

FisRecords ==
    [username : {"creator"}, followers : {12000}, bio : FisBios,
     recent_posts : SeqsUpTo(FisPosts, MaxPosts),
     audience_countries : FisAudiences,
     avg_upload_interval_days : FisIntervals,
     image_analysis : {NoImage}]

InitFIS ==
    /\ rec \in FisRecords
    /\ fis = NoResult
    /\ cls = NoResult
    /\ influencers = <<>>
    /\ call = NoResult
    /\ result = NoResult

\* fis_calc.calculate(rec)
CalculateFIS ==
    /\ \E tieUp \in BOOLEAN : fis' = calculate(rec, tieUp)
    /\ UNCHANGED <<rec, cls, influencers, call, result>>

NextFIS == CalculateFIS

SpecFIS == InitFIS /\ [][NextFIS]_vars

(***************************************************************************)
(* C8: the trust score returned by FISCalculator.calculate lies in         *)
(* [0, 100] (0..1000 in tenths of a point) for every creator record.       *)
(***************************************************************************)
C8_TrustScoreInRange ==
    fis # NoResult => (fis.fis_score >= 0 /\ fis.fis_score <= 1000)

\* the record whose five sub-scores are all at their maximum has been scored
C8_Witness ==
    /\ fis # NoResult
    /\ fis.breakdown = [view_variability |-> 95, engagement_asymmetry |-> 90,
                        comment_entropy |-> 90, activity_stability |-> 90,
                        geographic_consistency |-> 95]
    /\ fis.fis_score = 881

(***************************************************************************)
(* C9: the verdict is a function of the returned (rounded) trust score:    *)
(* 'trusted' iff fis_score >= 80, 'caution' iff 60 <= fis_score < 80,      *)
(* 'suspect' otherwise, although the verdict is computed before rounding.  *)
(***************************************************************************)
C9_VerdictFromReturnedScore ==
    fis # NoResult =>
        /\ (fis.verdict = "trusted") <=> (fis.fis_score >= 800)
        /\ (fis.verdict = "caution") <=> (fis.fis_score >= 600 /\ fis.fis_score < 800)
        /\ (fis.verdict = "suspect") <=> (fis.fis_score < 600)

\* a record whose returned score is exactly 80.0 (80.0375 before rounding) has
\* been scored 'trusted'
C9_Witness ==
    /\ fis # NoResult
    /\ fis.fis_score = 800
    /\ fis.verdict = "trusted"

\* a record whose score is exactly 60 has been scored 'caution'
C9_WitnessSixty ==
    /\ fis # NoResult
    /\ fis.fis_score = 600
    /\ fis.verdict = "caution"

(***************************************************************************)
(* Stand-alone scoring of one creator record: InfluencerClassifier.classify*)
(***************************************************************************)
ClsBios == {<<>>, Bio_salon_director, Bio_style_creator, Bio_colorist, Bio_daily_reviewer,
            Bio_latin, Bio_mixed}
ClsCaptions == {<<>>, Cap_treatment, Cap_ootd}
ClsScores == {0, 300, 500, 501, 700, 800, 950, 1000}

ClsImages ==
    {NoImage} \cup
    [present : {TRUE}, dominant_style : {"trendy"}, professionalism_score : ClsScores,
     trend_relevance_score : ClsScores, vibe : {<<>>}, aesthetic_tags : {<<>>}]

ClsPosts == [views : {200}, likes : {10}, comments : {1}, caption : ClsCaptions]

ClsRecords ==
    [username : {"creator"}, followers : {12000}, bio : ClsBios,
     recent_posts : SeqsUpTo(ClsPosts, MaxPosts),
     audience_countries : {NoAudience},
     avg_upload_interval_days : {32},
     image_analysis : ClsImages]

InitClassify ==
    /\ rec \in ClsRecords
    /\ fis = NoResult
    /\ cls = NoResult
    /\ influencers = <<>>
    /\ call = NoResult
    /\ result = NoResult

\* classifier.classify(rec)
Classify ==
    /\ \E tieUp \in BOOLEAN : cls' = classify(rec, tieUp)
    /\ UNCHANGED <<rec, fis, influencers, call, result>>

NextClassify == Classify

SpecClassify == InitClassify /\ [][NextClassify]_vars

(***************************************************************************)
(* C10: the role vector returned by classify has two components, each in   *)
(* [0, 1], that sum to 1, in the keyword branch, the visual-descriptor     *)
(* branch and the no-data default branch.                                  *)
(***************************************************************************)
FracInUnit(c) == c.den > 0 /\ 0 <= c.num /\ c.num <= c.den

\* a/b + c/d = 1
FracSumIsOne(x, y) == x.num * y.den + y.num * x.den = x.den * y.den

C10_RoleVectorNormalised ==
    cls # NoResult =>
        /\ Len(cls.role_vector) = 2
        /\ FracInUnit(cls.role_vector[1])
        /\ FracInUnit(cls.role_vector[2])
        /\ FracSumIsOne(cls.role_vector[1], cls.role_vector[2])

\* a keyword-branch classification with an unequal split has been returned
C10_Witness ==
    /\ cls # NoResult
    /\ ClassifyBranch(rec) = "keyword"
    /\ cls.classification = "Expert"
    /\ cls.role_vector[1] = Frac(8, 12)

\* the other two branches are reached as well
C10_WitnessVisual == cls # NoResult /\ ClassifyBranch(rec) = "visual" /\ cls.classification = "Expert"
C10_WitnessDefault == cls # NoResult /\ ClassifyBranch(rec) = "default"


(***************************************************************************)
(* C11: classify is monotone in the Expert keywords.  Adding words that    *)
(* carry Expert keywords and no Trendsetter keyword to the text of the     *)
(* record just classified, everything else unchanged, never decreases the  *)
(* first (Expert) component of the role vector; this includes the step     *)
(* from no keyword match (visual or default branch) to a non-zero Expert   *)
(* total.                                                                  *)
(***************************************************************************)
\* words that add occurrences of Expert keywords and of no Trendsetter keyword
ExpertWords == {"gyoyuk", "heeosalrong", "wonjang", "miyongsa"}

\* the additions tried: one word of weight 1.0, 2.0 or 3.0, or two words
ExpertAdditions == {<<"gyoyuk">>, <<"heeosalrong">>, <<"wonjang">>, <<"miyongsa", "gyoyuk">>}

\* the record with the words added at the end of its biography
WithAddedBio(influencer, words) == [influencer EXCEPT !.bio = @ \o words]

\* x <= y for fractions with positive denominators
FracLeq(x, y) == x.num * y.den <= y.num * x.den

C11_ExpertComponentMonotone ==
    /\ \A w \in ExpertWords :
          Parts(w) \cap EXPERT_KEYWORDS # {} /\ Parts(w) \cap TRENDSETTER_KEYWORDS = {}
    /\ \A added \in ExpertAdditions : \A i \in 1..Len(added) : added[i] \in ExpertWords
    /\ cls # NoResult =>
          \A added \in ExpertAdditions :
              FracLeq(cls.role_vector[1],
                      classify(WithAddedBio(rec, added), TRUE).role_vector[1])

\* a record classified Expert at 0.8 by its visual descriptor alone, which one
\* added keyword moves to the keyword branch with Expert component 1
C11_Witness ==
    /\ cls # NoResult
    /\ ClassifyBranch(rec) = "visual"
    /\ cls.role_vector[1] = Frac(800, 1000)
    /\ ClassifyBranch(WithAddedBio(rec, <<"gyoyuk">>)) = "keyword"
    /\ classify(WithAddedBio(rec, <<"gyoyuk">>), TRUE).role_vector[1] = Frac(2, 2)

\* a record labelled Trendsetter whose Expert component rises strictly within
\* the keyword branch, the label changing to Expert
C11_WitnessKeyword ==
    /\ cls # NoResult
    /\ ClassifyBranch(rec) = "keyword"
    /\ cls.classification = "Trendsetter"
    /\ cls.role_vector[1].num > 0
    /\ classify(WithAddedBio(rec, <<"wonjang">>), TRUE).classification = "Expert"

(***************************************************************************)
(* C12: when at least one role keyword matches, classify labels the        *)
(* creator Expert exactly when the weighted Expert total is strictly       *)
(* greater than the weighted Trendsetter total (a tie gives Trendsetter).  *)
(* The confidence is the winning category's share of the combined total:   *)
(* exactly so in the role vector, to three decimals in the confidence      *)
(* field, and at least 0.5.  A text with Expert keywords only is Expert    *)
(* with confidence 1.0.                                                    *)
(***************************************************************************)
\* x = num / den
FracIs(x, num, den) == x.den > 0 /\ x.num * den = num * x.den

C12_LabelIsLargerShare ==
    (cls # NoResult /\ ClassifyBranch(rec) = "keyword") =>
        LET expert_total == ExpertKeywordScore(FullText(rec))
            trend_total == TrendKeywordScore(FullText(rec))
            total == expert_total + trend_total
            winning == Max(expert_total, trend_total)
        IN  /\ cls.classification \in {"Expert", "Trendsetter"}
            /\ cls.classification = "Expert" <=> expert_total > trend_total
            /\ FracIs(cls.role_vector[1], expert_total, total)
            /\ FracIs(cls.role_vector[2], trend_total, total)
            /\ \E tieUp \in BOOLEAN : cls.confidence = RoundDiv(winning * 1000, total, tieUp)
            /\ cls.confidence >= 500
            /\ trend_total = 0 =>
                  /\ cls.classification = "Expert"
                  /\ cls.confidence = 1000
                  /\ FracIs(cls.role_vector[1], 1, 1)

\* Scenario B: the biography of a salon director, Expert keywords only
C12_Witness ==
    /\ cls # NoResult
    /\ rec.bio = Bio_salon_director
    /\ TrendKeywordScore(FullText(rec)) = 0
    /\ cls.classification = "Expert"
    /\ cls.confidence = 1000

\* a tie of the two weighted totals, labelled Trendsetter at 0.5
C12_WitnessTie ==
    /\ cls # NoResult
    /\ ExpertKeywordScore(FullText(rec)) = TrendKeywordScore(FullText(rec))
    /\ ExpertKeywordScore(FullText(rec)) > 0
    /\ cls.classification = "Trendsetter"
    /\ cls.confidence = 500

\* a share that is not a whole number of thousandths: 2/3 reported as 0.667
C12_WitnessRounded ==
    /\ cls # NoResult
    /\ cls.classification = "Expert"
    /\ FracIs(cls.role_vector[1], 2, 3)
    /\ cls.confidence = 667
(***************************************************************************)
(* The recommendation call: InfluencerMatcher.match over a creator list    *)
(***************************************************************************)
\* A call is made in one interpreter process: hashseed stands for the salt of its
\* string hash, tieUp for the way its floating point rounds a decimal tie.
Init ==
    /\ rec = NoResult
    /\ fis = NoResult
    /\ cls = NoResult
    /\ influencers \in CreatorLists
    /\ \E c \in Campaigns, top_k \in 1..MaxTopK, min_fis \in MinFisChoices,
          counts \in CountPairs,
          hashseed \in HashSeeds, tieUp \in BOOLEAN :
          call = [brand_data |-> c.brand_data, product_line |-> c.product_line,
                  top_k |-> top_k, min_fis |-> min_fis, expert_count |-> counts[1],
                  trendsetter_count |-> counts[2], hashseed |-> hashseed,
                  tieUp |-> tieUp]
    /\ result = NoResult

\* matcher.match(brand_data, influencers, top_k, min_fis, expert_count,
\*               trendsetter_count, product_line)
Match ==
    /\ result' = match(call.brand_data, influencers, call.top_k, call.min_fis,
                       call.expert_count, call.trendsetter_count, call.product_line,
                       call.hashseed, call.tieUp)
    /\ UNCHANGED <<rec, fis, cls, influencers, call>>

Next == Match

Spec == Init /\ [][Next]_vars

(***************************************************************************)
(* What the claims about a recommendation call speak of                    *)
(***************************************************************************)
Done == result # NoResult

Recs == result.recommendations

\* the all_results entry of the i-th creator of the input list
Entry(i) ==
    Analysed[call.tieUp][call.hashseed][[brand_data |-> call.brand_data,
                                         product_line |-> call.product_line]][influencers[i]]

\* the creators of the input list that pass the trust filter, by position
Passing ==
    {i \in 1..Len(influencers) : Entry(i).fis_score >= call.min_fis}

\* the number of trust-passing creators of a role
PassingOfType(type) ==
    Cardinality({i \in Passing : Entry(i).classification = type})

\* the number of recommendations of a role
NumRecs(type) == Cardinality({i \in 1..Len(Recs) : Recs[i].type = type})

\* the position in the input list of the creator with this handle
PositionOf(username) == CHOOSE i \in 1..Len(influencers) : influencers[i].username = username

ExplicitCounts == call.expert_count # None /\ call.trendsetter_count # None

NoCounts == call.expert_count = None /\ call.trendsetter_count = None

OtherType(type) == IF type = "Expert" THEN "Trendsetter" ELSE "Expert"

(***************************************************************************)
(* C1: every recommendation returned by match has a composite score in     *)
(* [0.50, 0.99] before the conversion to a percentage, and a displayed     *)
(* match_score in [50, 99].                                                *)
(***************************************************************************)
C1_CompositeScoreInRange ==
    Done =>
        /\ \A i \in 1..Len(Recs) : Recs[i].match_score >= 500 /\ Recs[i].match_score <= 990
        /\ \A i \in 1..Len(Recs) :
              LET composite == Entry(PositionOf(Recs[i].username)).match_score
              IN  composite >= 5000 /\ composite <= 9900

\* a list was returned in which one creator sits on the floor of the range and
\* another lies strictly inside it
C1_Witness ==
    /\ Done
    /\ \E i, j \in 1..Len(Recs) : Recs[i].match_score = 500 /\ Recs[j].match_score > 900

(***************************************************************************)
(* C2: the trust filter is hard.  No creator whose trust score is below    *)
(* min_fis appears in the recommendations, total_passed_fis is exactly the *)
(* number of creators of the input list whose trust score is >= min_fis,   *)
(* and total_analyzed is the length of the input list.                     *)
(***************************************************************************)
C2_TrustFilterIsHard ==
    Done =>
        /\ \A i \in 1..Len(Recs) :
              /\ PositionOf(Recs[i].username) \in Passing
              /\ Recs[i].fis_score = Entry(PositionOf(Recs[i].username)).fis_score
              /\ Recs[i].fis_score >= call.min_fis
        /\ result.total_passed_fis = Cardinality(Passing)
        /\ result.total_analyzed = Len(influencers)

\* some creators of the list failed the filter, and the call returned fewer
\* creators than it was asked for rather than one of them
C2_Witness ==
    /\ Done
    /\ result.total_passed_fis < result.total_analyzed
    /\ result.total_passed_fis >= 1
    /\ Len(Recs) = result.total_passed_fis
    /\ Len(Recs) < call.top_k

(***************************************************************************)
(* C3, as first stated: with both counts supplied and                      *)
(* top_k >= expert_count + trendsetter_count, the list holds exactly       *)
(* min(expert_count, #passing Experts) Experts and exactly                 *)
(* min(trendsetter_count, #passing Trendsetters) Trendsetters, never more  *)
(* of a role than was requested.                                           *)
(***************************************************************************)
C3_ExplicitCountsExact ==
    (Done /\ ExplicitCounts /\ call.top_k >= call.expert_count + call.trendsetter_count) =>
        /\ NumRecs("Expert") = Min(call.expert_count, PassingOfType("Expert"))
        /\ NumRecs("Trendsetter") = Min(call.trendsetter_count, PassingOfType("Trendsetter"))

(***************************************************************************)
(* C3: with both counts supplied and                                       *)
(* top_k >= expert_count + trendsetter_count, the list holds at least      *)
(* min(expert_count, #passing Experts) Experts and at least                *)
(* min(trendsetter_count, #passing Trendsetters) Trendsetters, and         *)
(* min(top_k, #passing creators) creators in all: the slots the requested  *)
(* counts leave open are filled from whichever role has creators left, so  *)
(* a role can be given more than was requested.                            *)
(***************************************************************************)
C3_ExplicitCountsThenFilled ==
    (Done /\ ExplicitCounts /\ call.top_k >= call.expert_count + call.trendsetter_count) =>
        /\ NumRecs("Expert") >= Min(call.expert_count, PassingOfType("Expert"))
        /\ NumRecs("Trendsetter") >= Min(call.trendsetter_count, PassingOfType("Trendsetter"))
        /\ Len(Recs) = Min(call.top_k, Cardinality(Passing))

\* two Experts and one Trendsetter were asked for, one Expert passed the filter, and
\* the open slot went to a second Trendsetter
C3_Witness ==
    /\ Done
    /\ call.expert_count = 2 /\ call.trendsetter_count = 1 /\ call.top_k = 3
    /\ NumRecs("Expert") = 1
    /\ NumRecs("Trendsetter") = 2

(***************************************************************************)
(* C4: with no explicit counts, a preferred role P in {Expert,             *)
(* Trendsetter} and at least top_k trust-passing creators of each role,    *)
(* match returns max(1, ceil(0.6 * top_k)) creators of role P and top_k    *)
(* minus that many of the other role.                                      *)
(***************************************************************************)
C4_PreferredRoleCeilShare ==
    (/\ Done
     /\ NoCounts
     /\ PassingOfType("Expert") >= call.top_k
     /\ PassingOfType("Trendsetter") >= call.top_k) =>
        LET P == result.brand_info.recommended_type
            share == Max(1, (6 * call.top_k + 9) \div 10)
        IN  /\ NumRecs(P) = share
            /\ NumRecs(OtherType(P)) = call.top_k - share

(***************************************************************************)
(* C5: when the product context resolves to the ideal role Both and no     *)
(* explicit counts are supplied, match gives max(1, floor(top_k / 2))      *)
(* slots to Experts and the remainder to Trendsetters, when both pools are *)
(* large enough for those shares.                                          *)
(***************************************************************************)
C5_BothSplitsEvenly ==
    (/\ Done
     /\ NoCounts
     /\ get_product_info(call.brand_data, call.product_line).ideal_influencer = "Both") =>
        LET half == Max(1, call.top_k \div 2)
        IN  (/\ PassingOfType("Expert") >= half
             /\ PassingOfType("Trendsetter") >= call.top_k - half) =>
                /\ NumRecs("Expert") = half
                /\ NumRecs("Trendsetter") = call.top_k - half

(***************************************************************************)
(* C6: whenever the initial role allocation falls short of top_k and both  *)
(* pools still hold unselected trust-passing creators, the extra slots are *)
(* taken from the preferred role's pool first.                             *)
(***************************************************************************)
C6_BackfillPreferredFirst ==
    Done =>
        LET P == result.brand_info.recommended_type
            pool == [type \in {"Expert", "Trendsetter"} |-> PassingOfType(type)]
            initial == InitialCounts(pool["Expert"], pool["Trendsetter"], call.top_k, P,
                                     call.expert_count, call.trendsetter_count)
            first == [type \in {"Expert", "Trendsetter"} |->
                         IF type = "Expert" THEN initial.exp ELSE initial.trend]
            short == call.top_k - initial.exp - initial.trend
            fromP == Min(pool[P] - first[P], short)
            fromOther == Min(pool[OtherType(P)] - first[OtherType(P)], short - fromP)
        IN  (short > 0 /\ pool["Expert"] > initial.exp /\ pool["Trendsetter"] > initial.trend) =>
                /\ NumRecs(P) = first[P] + fromP
                /\ NumRecs(OtherType(P)) = first[OtherType(P)] + fromOther

(***************************************************************************)
(* C7: the recommendations are ordered by composite score, non-increasing, *)
(* there are at most top_k of them, their ranks are 1, 2, ..., n in list   *)
(* order, and no creator handle appears twice.                             *)
(***************************************************************************)
C7_RankedListWellFormed ==
    Done =>
        /\ Len(Recs) <= call.top_k
        /\ \A i \in 1..Len(Recs) : Recs[i].rank = i
        /\ \A i, j \in 1..Len(Recs) : i < j => Recs[i].match_score >= Recs[j].match_score
        /\ \A i, j \in 1..Len(Recs) : i # j => Recs[i].username # Recs[j].username
        /\ \A i, j \in 1..Len(Recs) : i < j =>
              Entry(PositionOf(Recs[i].username)).match_score
                  >= Entry(PositionOf(Recs[j].username)).match_score

\* more creators passed than were asked for, and the list returned does not follow
\* the order of the input list: a creator later in the input is ranked first
C7_Witness ==
    /\ Done
    /\ Len(Recs) = call.top_k
    /\ call.top_k >= 3
    /\ result.total_passed_fis > call.top_k
    /\ PositionOf(Recs[1].username) > PositionOf(Recs[2].username)
    /\ Recs[1].match_score > Recs[3].match_score


(***************************************************************************)
(* The product fit of one creator: the steps of the loop of match that     *)
(* lead to _calculate_fit_score (classify, _evaluate_expertise,            *)
(* _calculate_fit_score), for one creator and one product context          *)
(***************************************************************************)
FitBios == {<<>>, Bio_salon_director, Bio_style_creator, Bio_colorist, Bio_daily_reviewer,
            Bio_sponsored, Bio_latin, Bio_scalp_researcher}
FitScores == {0, 250, 300, 500, 1000}

FitImages ==
    {NoImage} \cup
    [present : {TRUE}, dominant_style : {"trendy"}, professionalism_score : FitScores,
     trend_relevance_score : FitScores, vibe : {<<>>}, aesthetic_tags : {<<>>}]

FitRecords ==
    [username : {"creator"}, followers : {12000}, bio : FitBios,
     recent_posts : SeqsUpTo([views : {200}, likes : {10}, comments : {1},
                              caption : {Cap_treatment}], MaxPosts - 1),
     audience_countries : {NoAudience},
     avg_upload_interval_days : {32},
     image_analysis : FitImages]

FitApproaches == {"professional", "expert_oriented", "consumer"}
FitExpertiseKeywords == {<<>>, <<"dupi", "hanbang">>, <<"yeomsaek", "sisul">>}

InitFit ==
    /\ rec \in FitRecords
    /\ fis = NoResult
    /\ cls = NoResult
    /\ influencers = <<>>
    /\ call \in [marketing_approach : FitApproaches,
                 expertise_keywords : FitExpertiseKeywords]
    /\ result = NoResult

\* classification = classify(influencer); expertise_score = _evaluate_expertise(...);
\* fit_score = _calculate_fit_score(classification['classification'], ...)
ScoreFit ==
    /\ \E tieUp \in BOOLEAN : cls' = classify(rec, tieUp)
    /\ result' = [expertise_score |-> evaluate_expertise(rec, call.expertise_keywords),
                  fit_score |-> calculate_fit_score(cls'.classification,
                                    call.marketing_approach, rec,
                                    evaluate_expertise(rec, call.expertise_keywords))]
    /\ UNCHANGED <<rec, fis, influencers, call>>

NextFit == ScoreFit

SpecFit == InitFit /\ [][NextFit]_vars

\* the creator of the state was labelled role and scored under approach
Fitted(approach, role) ==
    /\ result # NoResult
    /\ call.marketing_approach = approach
    /\ cls.classification = role

(***************************************************************************)
(* C13: under the professional marketing approach the fit score of a       *)
(* creator labelled Expert is at least 0.85 (and at most 1.0) and that of  *)
(* a creator labelled Trendsetter is at most 0.25, whatever the biography, *)
(* the visual descriptor and the expertise score.                          *)
(***************************************************************************)
C13_ProfessionalFitBands ==
    /\ Fitted("professional", "Expert") =>
          result.fit_score >= 8500 /\ result.fit_score <= 10000
    /\ Fitted("professional", "Trendsetter") => result.fit_score <= 2500

\* an Expert with both bonuses at 1.0, scored for a professional line
C13_Witness ==
    /\ Fitted("professional", "Expert")
    /\ rec.bio = Bio_salon_director
    /\ rec.image_analysis.professionalism_score = 0
    /\ result.fit_score = 10000

\* a Trendsetter with the highest visual professionalism, scored 0.15
C13_WitnessTrendsetter ==
    /\ Fitted("professional", "Trendsetter")
    /\ rec.image_analysis.present
    /\ rec.image_analysis.professionalism_score = 1000
    /\ result.fit_score = 1500

(***************************************************************************)
(* C14: with visual professionalism and trend relevance in [0, 1] or       *)
(* absent, the fit score lies in the band documented for its approach and  *)
(* role: expert_oriented Expert [0.85, 1.0], expert_oriented Trendsetter   *)
(* [0.25, 0.40], consumer Trendsetter [0.85, 1.0], consumer Expert         *)
(* [0.5, 0.65]; and it lies in [0, 1] in every case.                       *)
(***************************************************************************)
InBand(x, lo, hi) == lo <= x /\ x <= hi

C14_FitScoreInDocumentedBand ==
    /\ result # NoResult => InBand(result.fit_score, 0, 10000)
    /\ Fitted("expert_oriented", "Expert") => InBand(result.fit_score, 8500, 10000)
    /\ Fitted("expert_oriented", "Trendsetter") => InBand(result.fit_score, 2500, 4000)
    /\ Fitted("consumer", "Trendsetter") => InBand(result.fit_score, 8500, 10000)
    /\ Fitted("consumer", "Expert") => InBand(result.fit_score, 5000, 6500)

(***************************************************************************)
(* The product context of a call: the first steps of match                 *)
(* (_get_product_info, _get_preferred_type_v2) over brand_data as          *)
(* recommend_influencers builds it                                         *)
(***************************************************************************)
ProductBrands == {Brand_ryeo, Brand_mise, Brand_ayunchae, Brand_labo}
ProductTypes == {"", PT_shampoo, PT_dye}
ProductLineNames == {"", PL_jayang, PL_hello_bubble, PL_pro_dye, PL_unknown}
\* the marketing approach of the analysis of a description, "" when there is none
DescriptionApproaches == {"", "professional", "expert_oriented", "consumer"}

InitProduct ==
    /\ rec = NoResult
    /\ fis = NoResult
    /\ cls = NoResult
    /\ influencers = <<>>
    /\ \E brand \in ProductBrands, product_type \in ProductTypes,
          approach \in DescriptionApproaches, override \in BOOLEAN,
          product_line \in ProductLineNames :
          call = [brand_data |-> BrandData(brand, product_type, <<>>, approach, override),
                  product_line |-> product_line]
    /\ result = NoResult

\* product_info = self._get_product_info(brand_data, product_line)
\* preferred_type = self._get_preferred_type_v2(marketing_approach, ideal_influencer)
ResolveProduct ==
    /\ result' =
          Bind(get_product_info(call.brand_data, call.product_line), LAMBDA product_info :
              [product_info |-> product_info,
               preferred_type |-> get_preferred_type_v2(product_info.marketing_approach,
                                                        product_info.ideal_influencer)])
    /\ UNCHANGED <<rec, fis, cls, influencers, call>>

NextProduct == ResolveProduct

SpecProduct == InitProduct /\ [][NextProduct]_vars

\* index of the product line the call resolves to (by name, else by product
\* type), or 0
ResolvedLine ==
    LET product_lines == call.brand_data.product_lines
        byLine == IF call.product_line = "" THEN 0
                  ELSE LineNamed(product_lines, 1, call.product_line)
    IN  IF byLine > 0 THEN byLine
        ELSE LineContaining(product_lines, 1, call.brand_data.product_type)

(***************************************************************************)
(* C15: when the call resolves to a product line that defines its own      *)
(* marketing approach, the approach match uses is the one extracted from   *)
(* the description if the override flag is set (and an approach was        *)
(* extracted), and the product line's own approach if the flag is not set. *)
(***************************************************************************)
C15_DescriptionOverridesOnlyWhenFlagged ==
    (result # NoResult /\ ResolvedLine > 0) =>
        LET line_info == call.brand_data.product_lines[ResolvedLine]
        IN  result.product_info.marketing_approach =
                IF call.brand_data.description_override
                   /\ call.brand_data.marketing_approach # ""
                THEN call.brand_data.marketing_approach
                ELSE line_info.marketing_approach

(***************************************************************************)
(* POST /recommend: recommend_influencers (routes.py).  A request carries  *)
(* brand_name, product_type, product_line, description and the two counts; *)
(* analysis is what the campaign analyzer returned for the description     *)
(* (its marketing approach, "" when none, and its override flag).  The     *)
(* response is the HTTP status and, for 200, the result of match; the      *)
(* texts added to the result (brand_analysis, campaign_analysis) are left  *)
(* out.                                                                    *)
(***************************************************************************)
\* _brand_db["brands"]
BrandDb == {Brand_ryeo, Brand_mise, Brand_ayunchae, Brand_labo}

BrandName_unknown == "eopsneunbeuraendeu"

\* _brand_db.get("brands", {}).get(brand_name, {})
BrandInfo(brand_name) ==
    IF \E b \in BrandDb : b.brand_name = brand_name
    THEN CHOOSE b \in BrandDb : b.brand_name = brand_name
    ELSE NoResult

\* the request (with its analysis) that leads to the call of campaign c
RequestFor(c, brand_name) ==
    [brand_name |-> brand_name,
     product_type |-> c.brand_data.product_type,
     product_line |-> c.product_line,
     description |-> c.brand_data.campaign_description,
     analysis |-> [marketing_approach |-> c.brand_data.marketing_approach,
                   override_brand |-> c.brand_data.description_override]]

Requests ==
    {RequestFor(c, c.brand_data.brand_name) : c \in Campaigns}
    \cup {RequestFor(c, BrandName_unknown) : c \in {d \in Campaigns : d.product_line = ""}}

\* total_count = 5, or expert_count + trendsetter_count when both are given
TotalCount(expert_count, trendsetter_count) ==
    IF expert_count # None /\ trendsetter_count # None
    THEN expert_count + trendsetter_count
    ELSE 5

InitRecommend ==
    /\ rec = NoResult
    /\ fis = NoResult
    /\ cls = NoResult
    /\ influencers \in CreatorLists
    /\ \E request \in Requests, counts \in CountPairs,
          hashseed \in HashSeeds, tieUp \in BOOLEAN :
          call = [request |-> request, expert_count |-> counts[1],
                  trendsetter_count |-> counts[2], hashseed |-> hashseed,
                  tieUp |-> tieUp]
    /\ result = NoResult

\* the handler, from the brand lookup to the returned results
Recommend ==
    /\ result' =
          Bind(BrandInfo(call.request.brand_name), LAMBDA brand_info :
              IF brand_info = NoResult
              THEN [status_code |-> 404]
              ELSE [status_code |-> 200,
                    results |->
                        match(BrandData(brand_info, call.request.product_type,
                                        call.request.description,
                                        call.request.analysis.marketing_approach,
                                        call.request.analysis.override_brand),
                              influencers,
                              TotalCount(call.expert_count, call.trendsetter_count),
                              400, call.expert_count, call.trendsetter_count,
                              call.request.product_line, call.hashseed, call.tieUp)])
    /\ UNCHANGED <<rec, fis, cls, influencers, call>>

NextRecommend == Recommend

SpecRecommend == InitRecommend /\ [][NextRecommend]_vars

\* the request names a product line, its brand is known and has no line of that name
NamesUnknownLine ==
    /\ call.request.product_line # ""
    /\ BrandInfo(call.request.brand_name) # NoResult
    /\ LineNamed(BrandInfo(call.request.brand_name).product_lines, 1,
                 call.request.product_line) = 0

(***************************************************************************)
(* C16: a request that names a product line which is not one of the        *)
(* brand's product lines ends in a lookup failure (status 404, as for an   *)
(* unknown brand) and returns no recommendation list.                      *)
(***************************************************************************)
C16_UnknownProductLineIsLookupFailure ==
    (result # NoResult /\ NamesUnknownLine) =>
        /\ result.status_code = 404
        /\ "results" \notin DOMAIN result

\* the lookup failure of an unknown brand is surfaced
C16_UnknownBrandIsLookupFailure ==
    (result # NoResult /\ BrandInfo(call.request.brand_name) = NoResult) =>
        result = [status_code |-> 404]

C16_WitnessUnknownBrand ==
    result # NoResult /\ BrandInfo(call.request.brand_name) = NoResult

(***************************************************************************)
(* The scorers on a record as it is read from JSON.  An optional field is  *)
(* absent, empty, null or set.  The records above stand for the first,     *)
(* second and last case: dict.get(key, default) gives the default for an   *)
(* absent key, and the default is the empty value.  For a key that is      *)
(* present with the value null, dict.get returns None; null holds the      *)
(* fields of the record in that state, [post |-> 0, field |-> f] for a     *)
(* field of the creator and [post |-> i, field |-> f] for a field of the   *)
(* i-th post.  A scorer that applies an operation None does not support    *)
(* raises TypeError.                                                       *)
(***************************************************************************)
TypeError == [raised |-> "TypeError"]

NullField(field) == [post |-> 0, field |-> field]
NullPostField(i, field) == [post |-> i, field |-> field]

\* FISCalculator.calculate reaches an operation on None
CalculateRaises(influencer, null) ==
    LET posts == influencer.recent_posts
    IN  \* [... for p in posts ...]
        \/ NullField("recent_posts") \in null
        \* p.get('views', 0) > 0
        \/ \E i \in 1..Len(posts) : NullPostField(i, "views") \in null
        \* likes / views, comments / views, for a post with views > 0
        \/ \E i \in 1..Len(posts) :
              /\ posts[i].views > 0
              /\ NullPostField(i, "likes") \in null \/ NullPostField(i, "comments") \in null
        \* interval == 0 is False for None, then 1 <= interval
        \/ NullField("avg_upload_interval_days") \in null
        \* the Hangul test iterates over bio and over the captions up to the
        \* first caption with Hangul; it is reached when audience is not empty
        \/ /\ NullField("audience_countries") \notin null
           /\ influencer.audience_countries # NoAudience
           /\ \/ NullField("bio") \in null
              \/ \E i \in 1..Len(posts) :
                    /\ NullPostField(i, "caption") \in null
                    /\ \A j \in 1..(i - 1) : ~TextHasHangul(posts[j].caption)

\* InfluencerClassifier.classify reaches an operation on None
ClassifyRaises(influencer, null) ==
    \* [p.get('caption', '') for p in posts]
    \/ NullField("recent_posts") \in null
    \* ' '.join([... None ...])
    \/ \E i \in 1..Len(influencer.recent_posts) : NullPostField(i, "caption") \in null

RawBios == {<<>>, Bio_salon_director, Bio_latin}
RawPosts == [views : {0, 200}, likes : {10}, comments : {1}, caption : {<<>>, Cap_treatment}]
RawImages == {NoImage, Image("luxury", 900, 300, <<>>, <<>>)}

RawRecords ==
    [username : {"creator"}, followers : {12000}, bio : RawBios,
     recent_posts : SeqsUpTo(RawPosts, MaxPosts),
     audience_countries : {NoAudience, Korean},
     avg_upload_interval_days : {0, 32},
     image_analysis : RawImages]

CreatorFields == {"recent_posts", "bio", "audience_countries", "avg_upload_interval_days",
                  "image_analysis"}
PostFields == {"views", "likes", "comments", "caption"}

\* the fields of a record that can be null: a null field carries no value, so
\* the record holds the empty value in its place (likes and comments are read
\* in likes / views and comments / views only, which raise for None)
Nullable(influencer) ==
    {NullField(f) : f \in {g \in CreatorFields :
                              \/ g = "recent_posts" /\ influencer.recent_posts = <<>>
                              \/ g = "bio" /\ influencer.bio = <<>>
                              \/ g = "audience_countries"
                                    /\ influencer.audience_countries = NoAudience
                              \/ g = "avg_upload_interval_days"
                                    /\ influencer.avg_upload_interval_days = 0
                              \/ g = "image_analysis" /\ influencer.image_analysis = NoImage}}
    \cup {n \in {NullPostField(i, f) : i \in 1..Len(influencer.recent_posts),
                                        f \in PostFields} :
             \/ n.field = "views" /\ influencer.recent_posts[n.post].views = 0
             \/ n.field \in {"likes", "comments"}
             \/ n.field = "caption" /\ influencer.recent_posts[n.post].caption = <<>>}

\* no field null, or one
NullSets(influencer) == {{}} \cup {{n} : n \in Nullable(influencer)}

\* One record, read once; tieUp is the way the floating point unit rounds the
\* decimal ties of this record, the same in every call.
InitRaw ==
    /\ rec \in RawRecords
    /\ fis = NoResult
    /\ cls = NoResult
    /\ influencers = <<>>
    /\ \E null \in NullSets(rec), tieUp \in BOOLEAN : call = [null |-> null, tieUp |-> tieUp]
    /\ result = NoResult

\* FISCalculator().calculate(rec), a first time or again
CalculateRaw ==
    /\ fis' = IF CalculateRaises(rec, call.null) THEN TypeError
              ELSE calculate(rec, call.tieUp)
    /\ UNCHANGED <<rec, cls, influencers, call, result>>

\* InfluencerClassifier().classify(rec), a first time or again
ClassifyRaw ==
    /\ cls' = IF ClassifyRaises(rec, call.null) THEN TypeError
              ELSE classify(rec, call.tieUp)
    /\ UNCHANGED <<rec, fis, influencers, call, result>>

NextRaw == CalculateRaw \/ ClassifyRaw

SpecRaw == InitRaw /\ [][NextRaw]_vars

(***************************************************************************)
(* C18: calculate and classify are total.  For every record in which an    *)
(* optional field (post list, a post's views, likes, comments or caption,  *)
(* biography, audience distribution, upload interval, visual descriptor)   *)
(* is absent, empty or null, both return a result and neither raises.      *)
(***************************************************************************)
C18_ScorersNeverRaise ==
    /\ fis # NoResult =>
          /\ fis # TypeError
          /\ "fis_score" \in DOMAIN fis
    /\ cls # NoResult =>
          /\ cls # TypeError
          /\ "classification" \in DOMAIN cls

\* the part of C18 that holds: with every optional field absent or empty, and
\* none null, both scorers return the neutral defaults (trust score 46.0,
\* Trendsetter at confidence 0.4)
C18_AbsentOrEmptyNeverRaises ==
    call.null = {} =>
        /\ fis # NoResult => fis # TypeError
        /\ cls # NoResult => cls # TypeError
        /\ (/\ rec.bio = <<>> /\ rec.recent_posts = <<>>
            /\ rec.audience_countries = NoAudience /\ rec.avg_upload_interval_days = 0
            /\ rec.image_analysis = NoImage) =>
              /\ fis # NoResult => fis.fis_score = 460
              /\ cls # NoResult => cls.classification = "Trendsetter" /\ cls.confidence = 400

C18_WitnessEmptyRecord ==
    /\ call.null = {}
    /\ rec.bio = <<>> /\ rec.recent_posts = <<>>
    /\ rec.audience_countries = NoAudience /\ rec.avg_upload_interval_days = 0
    /\ rec.image_analysis = NoImage
    /\ fis # NoResult /\ cls # NoResult

NonePasses == \A i \in 1..Len(influencers) : Entry(i).fis_score < call.min_fis

C17_NoPassingCreatorGivesEmptyList ==
    (Done /\ NonePasses) =>
        /\ DOMAIN result = {"brand_info", "total_analyzed", "total_passed_fis",
                            "recommendations"}
        /\ result.recommendations = <<>>
        /\ result.total_passed_fis = 0
        /\ result.total_analyzed = Len(influencers)
        /\ result.brand_info.name = call.brand_data.brand_name

\* Scenario E: a list of several creators, all below min_fis, with explicit
\* counts and a top_k larger than their sum
C17_Witness ==
    /\ Done
    /\ Len(influencers) >= 2
    /\ NonePasses
    /\ ExplicitCounts
    /\ call.top_k > call.expert_count + call.trendsetter_count
    /\ result.recommendations = <<>>

\* the empty creator list
C17_WitnessEmptyList == Done /\ influencers = <<>> /\ NoCounts /\ result.total_analyzed = 0

(***************************************************************************)
(* C20: match is deterministic.  A second invocation with the same brand   *)
(* context, creator list and parameters returns the same recommendation    *)
(* list (handles, order and scores), in the same process run and in any    *)
(* other: the per-creator variation is a fixed function of the handle and  *)
(* the follower count.                                                     *)
(***************************************************************************)
\* the recommendations of the same invocation in a process run whose string
\* hash is salted with hashseed
RecsInRun(hashseed) ==
    match(call.brand_data, influencers, call.top_k, call.min_fis, call.expert_count,
          call.trendsetter_count, call.product_line, hashseed, call.tieUp).recommendations

\* handles and displayed scores, in rank order
RankedScores(recs) == [i \in 1..Len(recs) |-> <<recs[i].username, recs[i].match_score>>]

C20_SameListInEveryRun ==
    Done => \A hashseed \in HashSeeds : RankedScores(RecsInRun(hashseed)) = RankedScores(Recs)
(***************************************************************************)
(* C21: a creator whose five sub-signals all fall in their healthiest      *)
(* bands (at least 2 posts with positive views and view CV in [0.08, 0.50),*)
(* mean like/view ratio in [0.02, 0.15], mean comment/view ratio in        *)
(* [0.001, 0.02], upload interval in [1, 7] days, Korean audience share    *)
(* >= 0.50) receives a trust score >= 80 and the verdict 'trusted'.        *)
(***************************************************************************)
HealthiestBands(influencer) ==
    LET posts == influencer.recent_posts
        views == PositiveViews(posts)
        n == Len(views)
        S == SumSeq(views)
        Q == SumSeq([i \in 1..n |-> views[i] * views[i]])
        D == n * Q - S * S
        likes == RatioMean(posts, "likes")
        comments == RatioMean(posts, "comments")
        audience == influencer.audience_countries
    IN  /\ n >= 2
        /\ ~CvBelow(D, S, 2, 25) /\ CvBelow(D, S, 1, 2)
        /\ FracGE(likes, 2, 100) /\ FracLE(likes, 15, 100)
        /\ FracGE(comments, 1, 1000) /\ FracLE(comments, 20, 1000)
        /\ influencer.avg_upload_interval_days >= 10
        /\ influencer.avg_upload_interval_days <= 70
        /\ "KR" \in DOMAIN audience /\ audience["KR"] >= 50

VecStyles == {"Luxury", "Natural", "Trendy", "Classic", "Minimal", "Colorful", ""}
VecProductTypes == {"", PT_dye}
VecCampaigns == {<<>>, Campaign_mz}

VecBrandData ==
    {[BrandData(brand, product_type, campaign, "", FALSE) EXCEPT !.aesthetic_style = style] :
        brand \in {Brand_ryeo, Brand_ayunchae}, product_type \in VecProductTypes,
        campaign \in VecCampaigns, style \in VecStyles}

VecImages ==
    {NoImage} \cup
    [present : {TRUE},
     dominant_style : {"luxury", "minimal", "colorful", "natural", "trendy"},
     professionalism_score : {0, 1000}, trend_relevance_score : {500},
     vibe : {<<>>}, aesthetic_tags : {<<>>}]

VecRecords ==
    Creators \cup
    [username : {"creator"}, followers : {12000},
     bio : {<<>>, Bio_sponsored, Bio_salon_director},
     recent_posts : SeqsUpTo([views : {200}, likes : {10}, comments : {1},
                              caption : {Cap_herbal, Cap_trend}], MaxPosts - 1),
     audience_countries : {NoAudience},
     avg_upload_interval_days : {32},
     image_analysis : VecImages]

InitVector ==
    /\ rec \in VecRecords
    /\ fis = NoResult
    /\ cls = NoResult
    /\ influencers = <<>>
    /\ call \in [brand_data : VecBrandData, tieUp : BOOLEAN]
    /\ result = NoResult

\* brand_vector = self.brand_vectorizer.vectorize(brand_data)
VectorizeBrand ==
    /\ result' = [of |-> "brand", vector |-> brand_vectorize(call.brand_data)]
    /\ UNCHANGED <<rec, fis, cls, influencers, call>>

\* classification = self.classifier.classify(influencer)
\* inf_vector = self.inf_vectorizer.vectorize(influencer, classification)
VectorizeInfluencer ==
    /\ result' = Bind(classify(rec, call.tieUp), LAMBDA classification :
                     [of |-> "influencer", vector |-> inf_vectorize(rec, classification)])
    /\ UNCHANGED <<rec, fis, cls, influencers, call>>

NextVector == VectorizeBrand \/ VectorizeInfluencer

SpecVector == InitVector /\ [][NextVector]_vars

\* the vector of the state's result before _normalize
RawVector ==
    IF result.of = "brand" THEN BrandVector(call.brand_data)
    ELSE InfluencerVector(rec, classify(rec, call.tieUp))

AllZero(vector) == \A i \in 1..Len(vector) : vector[i] = 0

\* The components of a returned vector are truncated to 1/10000, so its norm
\* is compared with 1 within 10/10000.
UnitNorm(vector) ==
    /\ SumSquares(vector) >= 9990 * 9990
    /\ SumSquares(vector) <= 10010 * 10010

(***************************************************************************)
(* C22: every vector returned by BrandVectorizer.vectorize and             *)
(* InfluencerVectorizer.vectorize has 7 components and Euclidean norm 1    *)
(* (within tolerance) unless all its components are 0, in which case it is *)
(* returned as the zero vector.                                            *)
(***************************************************************************)
C22_VectorsHaveUnitNorm ==
    (rec # NoResult /\ result # NoResult) =>
        /\ Len(result.vector) = 7
        /\ IF AllZero(RawVector) THEN result.vector = RawVector
           ELSE UnitNorm(result.vector)

\* a creator vector whose components were rescaled has been returned
C22_Witness ==
    /\ rec # NoResult /\ result # NoResult
    /\ result.of = "influencer"
    /\ result.vector # RawVector
    /\ \E i, j \in 1..7 : result.vector[i] # result.vector[j]
    /\ UnitNorm(result.vector)

\* a brand vector whose components were rescaled has been returned
C22_WitnessBrand ==
    /\ rec # NoResult /\ result # NoResult
    /\ result.of = "brand"
    /\ result.vector # RawVector
    /\ UnitNorm(result.vector)
(***************************************************************************)
(* The scoring of one creator for one campaign: one pass of the loop of    *)
(* match (classify, calculate, the vectors, _evaluate_expertise,           *)
(* _calculate_match_score_v2)                                              *)
(***************************************************************************)
Posts_engaged == <<Post(1000, 70, 12, Cap_treatment), Post(600, 70, 12, Cap_treatment)>>

ScoreBios == {<<>>, Bio_salon_director \o Bio_colorist, Bio_style_creator,
              Bio_daily_reviewer}

ScoreImages == {NoImage,
                Image("luxury", 1000, 300, Vibe_professional, Tags_pro),
                Image("trendy", 300, 1000, Vibe_trendy, Tags_trendy),
                Image("colorful", 0, 0, <<>>, <<>>)}

ScoreRecords ==
    Creators \cup
    [username : {"creator"}, followers : {800, 120000}, bio : ScoreBios,
     recent_posts : {<<>>, Posts_engaged},
     audience_countries : {Korean},
     avg_upload_interval_days : {32},
     image_analysis : ScoreImages]

InitScore ==
    /\ rec \in ScoreRecords
    /\ fis = NoResult
    /\ cls = NoResult
    /\ influencers = <<>>
    /\ \E c \in Campaigns, hashseed \in HashSeeds, tieUp \in BOOLEAN :
          call = [brand_data |-> c.brand_data, product_line |-> c.product_line,
                  hashseed |-> hashseed, tieUp |-> tieUp]
    /\ result = NoResult

\* the body of `for influencer in influencers:` up to all_results.append
Analyse ==
    /\ result' = analyse(call.brand_data, call.product_line, rec, call.hashseed, call.tieUp)
    /\ UNCHANGED <<rec, fis, cls, influencers, call>>

NextScore == Analyse

SpecScore == InitScore /\ [][NextScore]_vars

Scored == rec # NoResult /\ result # NoResult

\* fit score 1.0 and a raw score at the top of the normalisation range [0.5, 0.9]
PerfectFitAtTop ==
    /\ Scored
    /\ result.score_breakdown.fit_score = 10000
    /\ result.score_breakdown.raw_score >= 9000

\* a Trendsetter scored for a professional product
ClearlyMismatched ==
    /\ Scored
    /\ result.marketing_approach = "professional"
    /\ result.classification = "Trendsetter"

(***************************************************************************)
(* C23, as first stated: a creator with fit score 1.0 and a raw score at   *)
(* the top of the normalisation range obtains a composite score above 0.95 *)
(* (up to the 0.99 clamp), while a clearly mismatched creator              *)
(* (professional approach, Trendsetter) never obtains less than 0.50.      *)
(* The composite is a function of the fit score and the normalised raw     *)
(* score, so what one such creator obtains every such creator obtains.     *)
(***************************************************************************)
C23_PerfectFitAbove95 ==
    /\ PerfectFitAtTop => (result.match_score > 9500 /\ result.match_score <= 9900)
    /\ ClearlyMismatched => result.match_score >= 5000

(***************************************************************************)
(* C23: a creator with fit score 1.0 and a raw score at the top of the     *)
(* normalisation range obtains the composite score 0.95, the top of the    *)
(* band 0.65 + 0.30 * fit; no creator obtains more than 0.95, so the 0.99  *)
(* clamp never acts; a clearly mismatched creator (professional approach,  *)
(* Trendsetter) never obtains less than 0.50.                              *)
(***************************************************************************)
C23_PerfectFitReaches95 ==
    /\ Scored => result.match_score <= 9500
    /\ PerfectFitAtTop => result.match_score = 9500
    /\ ClearlyMismatched => result.match_score >= 5000

\* a creator with fit score 1.0 and raw score 0.95 has been scored 0.95
C23_Witness ==
    /\ PerfectFitAtTop
    /\ result.match_score = 9500

\* a Trendsetter scored for a professional product sits on the floor
C23_WitnessMismatched ==
    /\ ClearlyMismatched
    /\ result.score_breakdown.fit_score = 1500
    /\ result.match_score = 5000

(***************************************************************************)
(* C25: for every creator, brand context, role label and marketing         *)
(* approach, the unique score computed by _calculate_unique_score_v2 lies  *)
(* in the documented range [0.3, 1.0].  A Trendsetter whose visual         *)
(* descriptor has trend relevance 0 takes it below 0.3.                    *)
(***************************************************************************)
C25_UniqueScoreInDocumentedRange ==
    Scored =>
        /\ result.score_breakdown.unique >= 3000
        /\ result.score_breakdown.unique <= 10000

\* what the final clamp of the code does guarantee
C25_UniqueScoreInUnitRange ==
    Scored =>
        /\ result.score_breakdown.unique >= 0
        /\ result.score_breakdown.unique <= 10000

(***************************************************************************)
(* C24: when no role keyword matches, classify uses the visual descriptor: *)
(* the label is Expert iff professionalism > trend-relevance and           *)
(* professionalism > 0.5, and a descriptor whose trend-relevance is the    *)
(* higher score and exceeds 0.5 gives Trendsetter, each with confidence    *)
(* min(0.8, that score); a descriptor where neither score qualifies (a     *)
(* tie, or both at most 0.5) gives Trendsetter with confidence 0.5; an     *)
(* absent or empty descriptor gives Trendsetter with confidence 0.4.       *)
(* Scores are in thousandths, the precision of the reported confidence.    *)
(***************************************************************************)
C24_VisualFallback ==
    (cls # NoResult /\ ClassifyBranch(rec) # "keyword") =>
        LET image_analysis == rec.image_analysis
            prof == image_analysis.professionalism_score
            trend_rel == image_analysis.trend_relevance_score
            expertWins == prof > trend_rel /\ prof > 500
            trendWins == trend_rel > prof /\ trend_rel > 500
        IN  /\ cls.classification \in {"Expert", "Trendsetter"}
            /\ ClassifyBranch(rec) = "default" =>
                  /\ cls.classification = "Trendsetter"
                  /\ cls.confidence = 400
            /\ ClassifyBranch(rec) = "visual" =>
                  /\ cls.classification = "Expert" <=> expertWins
                  /\ expertWins => cls.confidence = Min(800, prof)
                  /\ trendWins =>
                        /\ cls.classification = "Trendsetter"
                        /\ cls.confidence = Min(800, trend_rel)
                  /\ (~expertWins /\ ~trendWins) =>
                        /\ cls.classification = "Trendsetter"
                        /\ cls.confidence = 500

\* a keywordless creator whose professionalism 0.95 is capped at 0.8
C24_Witness ==
    /\ cls # NoResult
    /\ ClassifyBranch(rec) = "visual"
    /\ rec.image_analysis.professionalism_score = 950
    /\ rec.image_analysis.trend_relevance_score = 700
    /\ cls.classification = "Expert"
    /\ cls.confidence = 800

\* a tie of the two scores above 0.5: Trendsetter at 0.5
C24_WitnessTie ==
    /\ cls # NoResult
    /\ ClassifyBranch(rec) = "visual"
    /\ rec.image_analysis.professionalism_score = 700
    /\ rec.image_analysis.trend_relevance_score = 700
    /\ cls.classification = "Trendsetter"
    /\ cls.confidence = 500

\* no keyword and no descriptor: Trendsetter at 0.4
C24_WitnessDefault ==
    /\ cls # NoResult
    /\ ClassifyBranch(rec) = "default"
    /\ cls.classification = "Trendsetter"
    /\ cls.confidence = 400

(***************************************************************************)
(* C29: the role label and the role vector returned by classify agree: a   *)
(* creator labelled Expert has expert_weight >= trendsetter_weight and a   *)
(* creator labelled Trendsetter has trendsetter_weight >= expert_weight,   *)
(* in the keyword branch, the visual-fallback branch and the no-data       *)
(* default branch.  The default branch returns Trendsetter with confidence *)
(* 0.4, hence the role vector (0.6, 0.4), and violates it.                 *)
(***************************************************************************)
C29_LabelAgreesWithRoleVector ==
    cls # NoResult =>
        /\ cls.classification = "Expert" => FracLeq(cls.role_vector[2], cls.role_vector[1])
        /\ cls.classification = "Trendsetter" => FracLeq(cls.role_vector[1], cls.role_vector[2])

\* the agreement holds wherever a keyword or a visual descriptor decides
C29_AgreesOutsideDefault ==
    (cls # NoResult /\ ClassifyBranch(rec) # "default") => C29_LabelAgreesWithRoleVector

\* the default branch: Trendsetter with the larger weight on the Expert side
C29_DefaultDisagrees ==
    (cls # NoResult /\ ClassifyBranch(rec) = "default") =>
        /\ cls.classification = "Trendsetter"
        /\ FracIs(cls.role_vector[1], 6, 10)
        /\ FracIs(cls.role_vector[2], 4, 10)

(***************************************************************************)
(* C26: per-creator scoring has no dependency between creators.  The role  *)
(* label, trust score and composite score that a match invocation returns  *)
(* for a creator are those of the loop body applied to that creator alone; *)
(* the scored survivors of a list are those of invocations on each of its  *)
(* creators alone, and an invocation on the same creators in another order *)
(* (reversed, or with two neighbours exchanged, the exchanges that make up *)
(* every reordering) gives the same set of scored survivors.  Match leaves *)
(* the brand context and the creator records as they were.                 *)
(***************************************************************************)
\* the scored survivors of an invocation on creators: a top_k as long as the list
\* and no explicit count leave the trust threshold as the only filter
Survivors(creators) ==
    LET recs == match(call.brand_data, creators, Max(1, Len(creators)), call.min_fis,
                      None, None, call.product_line, call.hashseed,
                      call.tieUp).recommendations
    IN  {[username |-> recs[i].username, type |-> recs[i].type,
          fis_score |-> recs[i].fis_score, match_score |-> recs[i].match_score] :
              i \in 1..Len(recs)}

\* creators with the entries at i and j exchanged
Exchanged(creators, i, j) ==
    [k \in 1..Len(creators) |->
        IF k = i THEN creators[j] ELSE IF k = j THEN creators[i] ELSE creators[k]]

Reversed(creators) == [k \in 1..Len(creators) |-> creators[Len(creators) + 1 - k]]

\* Survivors takes the brand context, the product line, min_fis and the process
\* from the call, and neither top_k nor the counts: the lists are compared once
\* for each of the former, in the call without counts that asks for one creator
ComparedOnce == NoCounts /\ call.top_k = 1

Recommended == {Recs[i].username : i \in 1..Len(Recs)}

C27_ReturnsMinOfTopKAndPassing ==
    Done =>
        /\ Len(Recs) = Min(call.top_k, Cardinality(Passing))
        /\ Cardinality(Recommended) = Len(Recs)
        /\ Recommended \subseteq {influencers[i].username : i \in Passing}
        /\ call.top_k >= Cardinality(Passing) =>
              \A i \in Passing : influencers[i].username \in Recommended

\* counts that ask for less than top_k: the list is filled up all the same
C27_Witness ==
    /\ Done
    /\ ExplicitCounts
    /\ call.expert_count + call.trendsetter_count < call.top_k
    /\ Cardinality(Passing) > call.expert_count + call.trendsetter_count
    /\ Len(Recs) = Min(call.top_k, Cardinality(Passing))
    /\ Len(Recs) > call.expert_count + call.trendsetter_count

\* counts that ask for more than top_k: the list is cut at top_k
C27_WitnessCut ==
    /\ Done
    /\ ExplicitCounts
    /\ call.expert_count + call.trendsetter_count > call.top_k
    /\ PassingOfType("Expert") >= call.expert_count
    /\ PassingOfType("Trendsetter") >= call.trendsetter_count
    /\ Len(Recs) = call.top_k

\* one count supplied, the other not
C27_WitnessPartial ==
    /\ Done
    /\ ~ExplicitCounts /\ ~NoCounts
    /\ Cardinality(Passing) > call.top_k
    /\ Len(Recs) = call.top_k

\* no Expert asked for (a count of 0), and the list holds Experts all the same
C27_WitnessZero ==
    /\ Done
    /\ call.expert_count = 0
    /\ NumRecs("Expert") > 0
    /\ Len(Recs) = Min(call.top_k, Cardinality(Passing))

(***************************************************************************)
(* C28: selection never skips a better candidate of the same role: for     *)
(* each role, no trust-passing creator of that role that was left out of   *)
(* the returned list has a strictly higher composite score than a          *)
(* selected creator of the same role.                                      *)
(***************************************************************************)
C28_NoBetterCandidateSkipped ==
    Done =>
        \A i \in Passing :
            influencers[i].username \notin Recommended =>
                \A k \in 1..Len(Recs) :
                    Recs[k].type = Entry(i).classification =>
                        Entry(i).match_score <= Entry(PositionOf(Recs[k].username)).match_score

\* a trust-passing creator was left out, below a selected creator of its role
\* that stands later in the input list
C28_Witness ==
    /\ Done
    /\ \E i \in Passing : \E k \in 1..Len(Recs) :
          /\ influencers[i].username \notin Recommended
          /\ Recs[k].type = Entry(i).classification
          /\ PositionOf(Recs[k].username) > i
          /\ Entry(i).match_score < Entry(PositionOf(Recs[k].username)).match_score

(***************************************************************************)
(* ImageAnalyzer: the visual descriptor of a creator                       *)
(***************************************************************************)
STYLE_CATEGORIES == <<"luxury", "natural", "trendy", "colorful", "minimal", "professional">>

ColorPalettes == <<"warm", "cool", "neutral", "vivid", "muted">>

\* the synthesized judgment with the trend relevance taken from the modulus of the
\* style confidence
simulate_singleOwnTrend(hash_val) ==
    [style_category |-> STYLE_CATEGORIES[(hash_val % Len(STYLE_CATEGORIES)) + 1],
     style_confidence |-> 600 + (hash_val % 40) * 10,
     professionalism_level |-> 500 + (hash_val % 50) * 10,
     trend_relevance |-> 500 + (hash_val % 40) * 10,
     color_palette |-> ColorPalettes[(hash_val % 5) + 1],
     simulated |-> TRUE]

\* hash_val = int(md5(source).hexdigest(), 16); scores in thousandths
simulate_single(hash_val) ==
    [style_category |-> STYLE_CATEGORIES[(hash_val % Len(STYLE_CATEGORIES)) + 1],
     style_confidence |-> 600 + (hash_val % 40) * 10,
     professionalism_level |-> 500 + (hash_val % 50) * 10,
     trend_relevance |-> 500 + (hash_val % 50) * 10,
     color_palette |-> ColorPalettes[(hash_val % 5) + 1],
     simulated |-> TRUE]

\* what the vision model answers for an image, when it answers
Judgment(style_category, professionalism_level, trend_relevance) ==
    [style_category |-> style_category, style_confidence |-> 900,
     professionalism_level |-> professionalism_level, trend_relevance |-> trend_relevance,
     color_palette |-> "neutral", simulated |-> FALSE]

\* the call to the vision model raised, or its answer was not JSON
Fails == [fails |-> TRUE]

\* a post without image_url and thumbnail_url
NoUrl == [url |-> FALSE]

\* api: an API key is set and the openai package is importable
analyze_single_image(image, api) ==
    IF ~api THEN simulate_single(image.hash_val)
    ELSE IF image.live = Fails THEN simulate_single(image.hash_val)
    ELSE image.live

\* max(style_counts, key=style_counts.get): the first style, in order of first
\* appearance, among the most frequent ones
DominantStyle(analyses) ==
    LET count(s) == Cardinality({i \in 1..Len(analyses) : analyses[i].style_category = s})
        first == CHOOSE i \in 1..Len(analyses) :
                    /\ \A j \in 1..Len(analyses) :
                          count(analyses[j].style_category) <= count(analyses[i].style_category)
                    /\ \A j \in 1..(i - 1) :
                          count(analyses[j].style_category) < count(analyses[i].style_category)
    IN  analyses[first].style_category

aggregate_results(username, analyses, tieUp) ==
    IF analyses = <<>>
    THEN [username |-> username, dominant_style |-> "trendy", style_confidence |-> 500,
          professionalism_score |-> 500, trend_relevance_score |-> 500]
    ELSE LET total_prof == SumSeq([i \in 1..Len(analyses) |-> analyses[i].professionalism_level])
             total_trend == SumSeq([i \in 1..Len(analyses) |-> analyses[i].trend_relevance])
             dominant == DominantStyle(analyses)
         IN  [username |-> username,
              dominant_style |-> dominant,
              style_distribution |->
                  [s \in {analyses[i].style_category : i \in 1..Len(analyses)} |->
                      Frac(Cardinality({i \in 1..Len(analyses) :
                                           analyses[i].style_category = s}), Len(analyses))],
              style_confidence |-> 700,
              professionalism_score |-> RoundDiv(total_prof, Len(analyses), tieUp),
              trend_relevance_score |-> RoundDiv(total_trend, Len(analyses), tieUp),
              visual_type_hint |->
                  IF dominant \in {"trendy", "colorful", "natural"}
                     /\ total_trend > 600 * Len(analyses)
                  THEN "Trendsetter" ELSE "Expert"]

\* hashes[i]: the md5 value of "{username}_{caption}_{i}" for the i-th post
simulate_analysis(username, posts, hashes, tieUp) ==
    aggregate_results(username,
        [i \in 1..Min(3, Len(posts)) |-> simulate_single(hashes[i])], tieUp)

\* images[i]: the image of the i-th post, or NoUrl
analyze(influencer, images, api, hashes, tieUp) ==
    IF influencer.image_analysis.present THEN influencer.image_analysis
    ELSE LET image_urls == SelectIdx(images, [i \in 1..Len(images) |-> images[i] # NoUrl])
         IN  IF image_urls = <<>>
             THEN simulate_analysis(influencer.username, influencer.recent_posts, hashes, tieUp)
             ELSE aggregate_results(influencer.username,
                      [i \in 1..Min(5, Len(image_urls)) |->
                          analyze_single_image(image_urls[i], api)], tieUp)

\* the descriptor as a creator record carries it: vibe and aesthetic_tags absent
Carried(descriptor) ==
    IF "present" \in DOMAIN descriptor THEN descriptor
    ELSE Image(descriptor.dominant_style, descriptor.professionalism_score,
               descriptor.trend_relevance_score, <<>>, <<>>)

(***************************************************************************)
(* The analysis of one creator, and the classification of the creator that *)
(* carries the descriptor                                                  *)
(***************************************************************************)
ImgHashes == {7, 299}

ImgLive == {Fails, Judgment("professional", 900, 300)}

ImgImages == {NoUrl} \cup [hash_val : ImgHashes, live : ImgLive]

ImgPosts == {Post(200, 10, 1, <<>>), Post(200, 10, 1, Cap_trend)}

ImgStored == {NoImage, Image("luxury", 900, 300, <<>>, <<>>)}

ImgRecords ==
    [username : {"creator"}, followers : {12000}, bio : {<<>>, Bio_salon_director},
     recent_posts : SeqsUpTo(ImgPosts, MaxPosts), audience_countries : {Korean},
     avg_upload_interval_days : {32}, image_analysis : ImgStored]

InitImage ==
    /\ rec \in ImgRecords
    /\ fis = NoResult
    /\ cls = NoResult
    /\ influencers = <<>>
    /\ \E images \in [1..Len(rec.recent_posts) -> ImgImages], api \in BOOLEAN,
          hashes \in [1..3 -> ImgHashes], tieUp \in BOOLEAN :
          call = [images |-> images, api |-> api, hashes |-> hashes, tieUp |-> tieUp]
    /\ result = NoResult

\* image_analyzer.analyze(influencer)
AnalyzeImages ==
    /\ result = NoResult
    /\ result' = analyze(rec, call.images, call.api, call.hashes, call.tieUp)
    /\ UNCHANGED <<rec, fis, cls, influencers, call>>

\* classifier.classify(influencer) for the creator that carries the descriptor
ClassifyAnalysed ==
    /\ result # NoResult
    /\ cls = NoResult
    /\ cls' = classify([rec EXCEPT !.image_analysis = Carried(result)], call.tieUp)
    /\ UNCHANGED <<rec, fis, influencers, call, result>>

NextImage == AnalyzeImages \/ ClassifyAnalysed

SpecImage == InitImage /\ [][NextImage]_vars

(***************************************************************************)
(* C30: every descriptor that analyze builds without an answer of the      *)
(* vision model (from synthesized per-image judgments, or the default for  *)
(* no input) has professionalism_score equal to trend_relevance_score; a   *)
(* creator without role keywords that carries such a descriptor is         *)
(* classified Trendsetter with confidence 0.5, never Expert.               *)
(***************************************************************************)
\* the descriptor was built, and no judgment in it came from the vision model
Synthesized ==
    /\ result # NoResult
    /\ ~rec.image_analysis.present
    /\ \/ ~call.api
       \/ \A i \in 1..Len(call.images) :
             call.images[i] # NoUrl => call.images[i].live = Fails

Keywordless == ExpertKeywordScore(FullText(rec)) + TrendKeywordScore(FullText(rec)) = 0

C30_SynthesizedDescriptorIsBalanced ==
    Synthesized =>
        /\ result.professionalism_score = result.trend_relevance_score
        /\ (cls # NoResult /\ Keywordless) =>
              /\ cls.classification = "Trendsetter"
              /\ cls.confidence = 500

\* two posts without images, judgments synthesized from two different hash values:
\* both scores are (0.57 + 0.99) / 2 = 0.78, above 0.5, and the label is Trendsetter
C30_Witness ==
    /\ Synthesized
    /\ Len(rec.recent_posts) = 2
    /\ \A i \in 1..2 : call.images[i] = NoUrl
    /\ call.hashes[1] # call.hashes[2]
    /\ result.professionalism_score = 780
    /\ result.trend_relevance_score = 780
    /\ Keywordless
    /\ cls # NoResult
    /\ cls.classification = "Trendsetter"
    /\ cls.confidence = 500

\* no post and no image: the default descriptor
C30_WitnessDefault ==
    /\ Synthesized
    /\ rec.recent_posts = <<>>
    /\ result.professionalism_score = 500
    /\ result.dominant_style = "trendy"
    /\ cls # NoResult
    /\ Keywordless
    /\ cls.confidence = 500

\* with an answer of the vision model the scores differ and the label can be Expert
C30_WitnessLive ==
    /\ result # NoResult
    /\ ~Synthesized
    /\ ~rec.image_analysis.present
    /\ result.professionalism_score > result.trend_relevance_score
    /\ Keywordless
    /\ cls # NoResult
    /\ cls.classification = "Expert"

=============================================================================
